---- MODULE Spec2Model ----
(***************************************************************************)
(* MCP2.0: capability-secured RPC fabric (auth.py, middleware.py,          *)
(* registry_server.py, context_tool_server.py, event_bus_server.py).       *)
(*                                                                         *)
(* A Python str is a sequence of one-character strings, so that            *)
(* str.startswith / str.endswith / slicing are computed, not assumed.      *)
(* A Python dict is a record whose DOMAIN holds exactly the keys present.  *)
(***************************************************************************)
EXTENDS Integers, Sequences, FiniteSets, TLC

VARIABLES
    now,               \* time.time(), in seconds
    jwks_cache,        \* auth._JWKS_CACHE
    jwks_last_fetch,   \* auth._JWKS_LAST_FETCH
    fn,                \* direct call of a function of auth.py: which one
    args,              \*   its arguments
    ret,               \*   its outcome (NoRet before the call)
    proc,              \* the server process observed: each has its own globals
    pool,              \* worker threads of its ThreadPoolExecutor
    call,              \* per worker: the RPC it is handling, and where it is
    CIRCUIT,           \* context_tool_server.CIRCUIT
    CACHE,             \* context_tool_server.CACHE.store
    db,                \* the context_entries table
    hist,              \* history of the run, read by no handler
    registry,          \* the mcp2:registry:* keys of the registry's Redis
    TOPIC_COUNTER      \* event_bus_server.TOPIC_COUNTER

authVars == <<jwks_cache, jwks_last_fetch>>
callVars == <<fn, args, ret>>
ctVars == <<CIRCUIT, CACHE, db, hist>>
svcVars == <<proc, pool, call, CIRCUIT, CACHE, db, hist, registry, TOPIC_COUNTER>>
vars == <<now, jwks_cache, jwks_last_fetch, fn, args, ret,
          proc, pool, call, CIRCUIT, CACHE, db, hist, registry, TOPIC_COUNTER>>

----------------------------------------------------------------------------
(* Bounds of the model *)

MaxLen == 3        \* longest capability string drawn for the matcher
MaxCaps == 2       \* longest granted list drawn for the matcher
MaxTime == 3       \* latest clock value drawn for the token verifier
MaxWorkers == 2    \* worker threads modelled (the pool has 10)
TickSize == 15     \* seconds the clock advances in one step
MaxTicks == 3      \* clock steps taken
MaxFailures == 4   \* failures the breaker is made to count
MaxSeq == 2        \* publishes counted per topic

----------------------------------------------------------------------------
(* Python primitives *)

None == "None"

Get(d, k, default) == IF k \in DOMAIN d THEN d[k] ELSE default

ToSet(list) == {list[i] : i \in 1..Len(list)}

\* str.startswith(prefix)
startswith(s, prefix) ==
    /\ Len(prefix) <= Len(s)
    /\ \A i \in 1..Len(prefix) : s[i] = prefix[i]

\* str.endswith("*")
endswith_star(s) == Len(s) > 0 /\ s[Len(s)] = "*"

\* s[:-1]
drop_last(s) == IF Len(s) = 0 THEN s ELSE SubSeq(s, 1, Len(s) - 1)

----------------------------------------------------------------------------
(* auth.py: configuration *)

OIDC_ISSUER == "https://your-idp.example.com"
JWKS_TTL_SECONDS == 3600

\* _JWKS_CACHE is None
NoJwks == [present |-> FALSE, keys |-> <<>>]
Jwks(keys) == [present |-> TRUE, keys |-> keys]

\* requests.get(JWKS_ENDPOINT): a non-2xx answer, a timeout, or a key set
HttpError == [ok |-> FALSE, keys |-> <<>>]
HttpOk(keys) == [ok |-> TRUE, keys |-> keys]

\* _fetch_jwks() caching an empty key set when the endpoint fails
fetch_jwks_caches_failure(cache, last, t, resp) ==
    IF ~cache.present \/ t - last > JWKS_TTL_SECONDS
    THEN IF ~resp.ok
         THEN [raised |-> TRUE, cache |-> Jwks(<<>>), last |-> t,
               jwks |-> NoJwks, fetched |-> TRUE]
         ELSE [raised |-> FALSE, cache |-> Jwks(resp.keys), last |-> t,
               jwks |-> Jwks(resp.keys), fetched |-> TRUE]
    ELSE [raised |-> FALSE, cache |-> cache, last |-> last,
          jwks |-> cache, fetched |-> FALSE]

\* _fetch_jwks() refreshing one second early (now - last >= TTL)
fetch_jwks_early(cache, last, t, resp) ==
    IF ~cache.present \/ t - last >= JWKS_TTL_SECONDS
    THEN IF ~resp.ok
         THEN [raised |-> TRUE, cache |-> cache, last |-> last,
               jwks |-> NoJwks, fetched |-> TRUE]
         ELSE [raised |-> FALSE, cache |-> Jwks(resp.keys), last |-> t,
               jwks |-> Jwks(resp.keys), fetched |-> TRUE]
    ELSE [raised |-> FALSE, cache |-> cache, last |-> last,
          jwks |-> cache, fetched |-> FALSE]

(* _fetch_jwks(): the globals after the call, the value returned, whether  *)
(* it raised (raise_for_status) and whether it went to the network.        *)
fetch_jwks(cache, last, t, resp) ==
    IF ~cache.present \/ t - last > JWKS_TTL_SECONDS
    THEN IF ~resp.ok
         THEN [raised |-> TRUE, cache |-> cache, last |-> last,
               jwks |-> NoJwks, fetched |-> TRUE]
         ELSE [raised |-> FALSE, cache |-> Jwks(resp.keys), last |-> t,
               jwks |-> Jwks(resp.keys), fetched |-> TRUE]
    ELSE [raised |-> FALSE, cache |-> cache, last |-> last,
          jwks |-> cache, fetched |-> FALSE]

----------------------------------------------------------------------------
(* Tokens.  A compact JWT is [raw |-> "jwt", header, sig, claims]: sig is  *)
(* the key material whose private half signed it.  "" and text that is no  *)
(* JWT are [raw |-> "empty"] and [raw |-> "garbage"].                      *)

EmptyToken == [raw |-> "empty"]
GarbageToken == [raw |-> "garbage"]
Jwt(header, sig, claims) ==
    [raw |-> "jwt", header |-> header, sig |-> sig, claims |-> claims]

\* the aud claim: a str, or a list of str
AudStr(s) == [kind |-> "str", v |-> <<s>>]
AudList(l) == [kind |-> "list", v |-> l]

\* for jwk in jwks.get("keys", []): if jwk.get("kid") == kid: ... break
RECURSIVE find_jwk(_, _, _)
find_jwk(keys, kid, i) ==
    IF i > Len(keys) THEN 0
    ELSE IF keys[i].kid = kid THEN i
    ELSE find_jwk(keys, kid, i + 1)

(* jose_jwt.decode(token, key_data, algorithms=["RS256"], audience=...,    *)
(* issuer=OIDC_ISSUER) of python-jose: jws.verify refuses a header alg     *)
(* outside `algorithms` and a signature the key does not verify; then      *)
(* _validate_exp raises only if exp < now (an absent exp is not required), *)
(* _validate_iat only requires an integer, _validate_aud returns at once   *)
(* when the claim is absent and otherwise requires audience in the list,   *)
(* _validate_iss requires claims.get("iss") == issuer.                     *)
jose_decode(token, key_data, audience, issuer, t) ==
    LET c == token.claims IN
    /\ token.header.alg \in {"RS256"}
    /\ token.sig = key_data.key
    /\ ("exp" \in DOMAIN c => ~(c.exp < t))
    /\ ("aud" \in DOMAIN c => audience \in ToSet(c.aud.v))
    /\ Get(c, "iss", None) = issuer

Raised(kind, f) ==
    [ok |-> FALSE, error |-> kind, payload |-> [none |-> TRUE],
     cache |-> f.cache, last |-> f.last, fetches |-> IF f.fetched THEN 1 ELSE 0]

(* verify_jwt_token(token, audience), called at time t with the key        *)
(* endpoint answering resp.  `_JWKS_LAST_FETCH = 0` at line 57 has no      *)
(* `global` statement: it binds a local, the module's _JWKS_LAST_FETCH is  *)
(* untouched, so the second _fetch_jwks() sees the cache as fresh as the   *)
(* first left it and returns it.                                           *)
verify_jwt_token(token, audience, cache, last, t, resp) ==
    LET Decode(f) ==
          \* lines 47-77, with f the outcome of the first _fetch_jwks()
          IF f.raised THEN Raised("HTTPError", f)
          ELSE IF token.raw # "jwt" THEN Raised("JWTError", f)
          ELSE IF "kid" \notin DOMAIN token.header THEN Raised("JWTError", f)
          ELSE
            LET Keyed(j1, f2) ==
                  \* lines 60-77, with f2 the outcome of the second one
                  LET Found(j2, g) ==
                        IF f2.raised THEN Raised("HTTPError", g)
                        ELSE IF j2 = 0 THEN Raised("JWTError", g)
                        ELSE IF jose_decode(token, f2.jwks.keys[j2], audience,
                                            OIDC_ISSUER, t)
                        THEN [ok |-> TRUE, error |-> None,
                              payload |-> token.claims,
                              cache |-> g.cache, last |-> g.last,
                              fetches |-> IF g.fetched THEN 1 ELSE 0]
                        ELSE Raised("JWTError", g)
                  IN Found(IF j1 = 0
                           THEN find_jwk(f2.jwks.keys, token.header.kid, 1)
                           ELSE j1,
                           [f2 EXCEPT !.fetched = f.fetched \/ (j1 = 0 /\ f2.fetched)])
                Refetch(j1) ==
                  Keyed(j1, IF j1 = 0 THEN fetch_jwks(f.cache, f.last, t, resp)
                            ELSE f)
            IN Refetch(find_jwk(f.jwks.keys, token.header.kid, 1))
    IN Decode(fetch_jwks(cache, last, t, resp))

----------------------------------------------------------------------------
(* auth.py: capability, audience, delegation *)

\* a matcher that knows equality only
RECURSIVE match_exact(_, _, _)
match_exact(list, target, i) ==
    IF i > Len(list) THEN FALSE
    ELSE IF list[i] = target THEN TRUE
    ELSE match_exact(list, target, i + 1)

RECURSIVE match_from(_, _, _)
match_from(list, target, i) ==
    IF i > Len(list) THEN FALSE
    ELSE IF list[i] = target THEN TRUE
    ELSE IF endswith_star(list[i]) /\ startswith(target, drop_last(list[i]))
         THEN TRUE
    ELSE match_from(list, target, i + 1)

has_capability(payload, required) ==
    match_from(Get(payload, "capabilities", <<>>), required, 1)

\* has_audience, lines 106-113
RECURSIVE aud_from(_, _, _)
aud_from(audiences, target, i) ==
    IF i > Len(audiences) THEN FALSE
    ELSE IF audiences[i] = target THEN TRUE
    ELSE IF endswith_star(audiences[i])
            /\ startswith(target, drop_last(audiences[i]))
         THEN TRUE
    ELSE aud_from(audiences, target, i + 1)

has_audience(payload, target) ==
    aud_from(IF "aud" \in DOMAIN payload THEN payload.aud.v ELSE <<>>,
             target, 1)

\* a subset check that lets every delegated list through
caps_unchecked(del_caps, orig_caps) == TRUE

\* del_caps.issubset(orig_caps)
caps_subset(del_caps, orig_caps) == ToSet(del_caps) \subseteq ToSet(orig_caps)

verify_delegation_proof(delegation_jwt, delegatee, original, cache, last, t, resp) ==
    LET Checks(v) ==
          \* lines 133-151, with v the outcome of verify_jwt_token
          IF ~v.ok THEN v
          ELSE IF Get(v.payload, "iss", None) # Get(original, "iss", None)
               THEN [v EXCEPT !.ok = FALSE, !.error = "ValueError"]
          ELSE IF Get(v.payload, "sub", None) # Get(original, "sub", None)
               THEN [v EXCEPT !.ok = FALSE, !.error = "ValueError"]
          ELSE IF Get(v.payload, "delegatee", <<>>) # delegatee
               THEN [v EXCEPT !.ok = FALSE, !.error = "ValueError"]
          ELSE IF ~caps_subset(Get(v.payload, "capabilities", <<>>),
                               Get(original, "capabilities", <<>>))
               THEN [v EXCEPT !.ok = FALSE, !.error = "ValueError"]
          ELSE v
    IN Checks(verify_jwt_token(delegation_jwt, delegatee, cache, last, t, resp))

----------------------------------------------------------------------------
(* middleware.py *)

NoTime == -1       \* last_failure_time = None

CircuitBreaker(threshold, recovery_time) ==
    [threshold |-> threshold, recovery_time |-> recovery_time,
     failure_count |-> 0, last_failure_time |-> NoTime, open |-> FALSE]

before_call(b, t) ==
    IF b.open
    THEN IF t - b.last_failure_time > b.recovery_time THEN TRUE ELSE FALSE
    ELSE TRUE

\* after_call whose success branch keeps failure_count
after_call_keeps_count(b, success, t) ==
    IF success
    THEN [b EXCEPT !.open = FALSE]
    ELSE [b EXCEPT !.failure_count = b.failure_count + 1,
                   !.last_failure_time = t,
                   !.open = IF b.failure_count + 1 >= b.threshold
                            THEN TRUE ELSE b.open]

\* CircuitBreaker.after_call
after_call(b, success, t) ==
    IF success
    THEN [b EXCEPT !.failure_count = 0, !.open = FALSE]
    ELSE [b EXCEPT !.failure_count = b.failure_count + 1,
                   !.last_failure_time = t,
                   !.open = IF b.failure_count + 1 >= b.threshold
                            THEN TRUE ELSE b.open]

\* SimpleCache.get: self.store.get(key)
NoResp == [none |-> TRUE]
cache_get(store, key) == IF key \in DOMAIN store THEN store[key] ELSE NoResp

\* SimpleCache.set: self.store[key] = value (ttl is not kept)
cache_set(store, key, value, ttl) == (key :> value) @@ store

----------------------------------------------------------------------------
(* The strings of the servers *)

SN_ContextTool == <<"C","o","n","t","e","x","t","T","o","o","l","S","e","r","v","e","r">>
SN_Registry == <<"R","e","g","i","s","t","r","y","S","e","r","v","e","r">>
SN_EventBus == <<"E","v","e","n","t","B","u","s","S","e","r","v","e","r">>
CAP_db_inventory_read == <<"d","b",":","i","n","v","e","n","t","o","r","y",":","r","e","a","d">>
CAP_db_inventory_any == <<"d","b",":","i","n","v","e","n","t","o","r","y",":","*">>
CAP_telemetry_read == <<"t","e","l","e","m","e","t","r","y",":","r","e","a","d">>
CAP_tool_multimodal == <<"t","o","o","l",":","m","u","l","t","i","m","o","d","a","l","_","e","x","c","h","a","n","g","e">>
CAP_registry_register == <<"r","e","g","i","s","t","r","y",":","r","e","g","i","s","t","e","r">>
CAP_registry_lookup == <<"r","e","g","i","s","t","r","y",":","l","o","o","k","u","p">>
PFX_tool == <<"t","o","o","l",":">>
PFX_event_publish == <<"e","v","e","n","t",":","p","u","b","l","i","s","h",":">>
PFX_event_subscribe == <<"e","v","e","n","t",":","s","u","b","s","c","r","i","b","e",":">>
compute_pricing == <<"c","o","m","p","u","t","e","_","p","r","i","c","i","n","g">>
dangerous == <<"d","a","n","g","e","r","o","u","s">>

----------------------------------------------------------------------------
(* What the callers send *)

\* the identity provider's key set, as its endpoint serves it
IdpKeys == <<[kid |-> "k1", key |-> "pub1"]>>

\* the endpoint's answer to a fetch; drawn only when a fetch is due
Answers(cache, last, t) ==
    IF ~cache.present \/ t - last > JWKS_TTL_SECONDS
    THEN {HttpError, HttpOk(IdpKeys)}
    ELSE {HttpError}

NotExpired == MaxTicks * TickSize + 1

Claims(aud, sub, caps) ==
    [iss |-> OIDC_ISSUER, sub |-> sub, aud |-> aud, iat |-> 0,
     exp |-> NotExpired, capabilities |-> caps]

Signed(claims) == Jwt([alg |-> "RS256", kid |-> "k1"], "pub1", claims)

\* tokens no server accepts, and one without an aud claim
BadTokens(server, caps) ==
    { EmptyToken, GarbageToken,
      Signed([Claims(AudStr(server), "alice", caps) EXCEPT !.exp = -1]),
      Jwt([alg |-> "RS256", kid |-> "k1"], "forged",
          Claims(AudStr(server), "alice", caps)),
      Signed(Claims(AudStr(<<"O","t","h","e","r">>), "alice", caps)) }

NoAud(caps) ==
    Signed([iss |-> OIDC_ISSUER, sub |-> "alice", iat |-> 0,
            exp |-> NotExpired, capabilities |-> caps])

CtCapLists ==
    { <<CAP_db_inventory_read, CAP_telemetry_read, PFX_tool \o compute_pricing,
        CAP_tool_multimodal>>,
      <<CAP_db_inventory_any>>,
      <<PFX_tool \o compute_pricing>>,
      <<PFX_tool \o <<"*">> >>,
      <<>> }

\* alice's tokens, except that the holder of db:inventory:* is bob
CtTokens ==
    {Signed(Claims(AudStr(SN_ContextTool),
                   IF caps = <<CAP_db_inventory_any>> THEN "bob" ELSE "alice",
                   caps)) : caps \in CtCapLists}
    \cup BadTokens(SN_ContextTool, <<CAP_db_inventory_read>>)
    \cup {NoAud(<<CAP_db_inventory_any, PFX_tool \o <<"*">> >>)}

Delegation(sub, delegatee, caps) ==
    Signed(Claims(AudStr(SN_ContextTool), sub, caps)
           @@ [delegatee |-> delegatee])

DelegationProofs ==
    { EmptyToken, GarbageToken,
      Delegation("alice", SN_ContextTool, <<PFX_tool \o compute_pricing>>),
      Delegation("alice", SN_ContextTool,
                 <<PFX_tool \o compute_pricing, PFX_tool \o dangerous>>),
      Delegation("alice", SN_ContextTool, <<PFX_tool \o dangerous>>),
      Delegation("bob", SN_ContextTool, <<PFX_tool \o dangerous>>),
      Delegation("alice", SN_EventBus, <<PFX_tool \o dangerous>>) }

ToolNames == {compute_pricing, dangerous}
ContextKeys == {"inventory:prod_12345:stock_count"}
Rows == {[serialized_value |-> "42", metadata |-> <<"ts">>]}

----------------------------------------------------------------------------
(* A worker handling one RPC.  `aborts` are the codes passed to            *)
(* context.abort in order: abort sets the call's status code and raises,   *)
(* so a later abort (from an except block that caught the first) replaces  *)
(* the code of an earlier one.  `logs` counts TELEMETRY.log calls, `fx`    *)
(* the handler effects of the call; verified/granted record what the       *)
(* token verifier and the capability matcher found for this call; t0 is    *)
(* a time the call read from the clock, seq the sequence number it took,   *)
(* named what has_audience found for a RequestContext call, items the      *)
(* sorted parameter items of its request, out the messages it returned,    *)
(* again that its request had been answered before, with no change of the  *)
(* backing store since; aud is the aud claim of a Lookup's caller as a     *)
(* list, filter its capability_filter; shown is the text of the exception  *)
(* interpolated into the status message the caller receives ("" when the   *)
(* message is a fixed text); count is the failure_count a thread loaded    *)
(* for `self.failure_count += 1` and has not stored back yet.              *)

IdleCall ==
    [rpc |-> "idle", pc |-> "idle", sub |-> None, key |-> None, tool |-> <<>>,
     verified |-> FALSE, granted |-> FALSE, delegated |-> FALSE,
     proof |-> "none", parent_caps |-> <<>>, aborts |-> <<>>, logs |-> 0, fx |-> {},
     end |-> "none", probe |-> FALSE, active |-> TRUE, out |-> <<>>,
     t0 |-> 0, seq |-> 0, named |-> FALSE, items |-> <<>>, again |-> FALSE,
     aud |-> <<>>, filter |-> <<>>, shown |-> "", count |-> 0]

Workers == 1..pool

\* the status the client sees
Status(k) ==
    IF k.aborts # <<>> THEN k.aborts[Len(k.aborts)]
    ELSE IF k.end = "raise" THEN "UNKNOWN"
    ELSE IF k.end = "return" THEN "OK"
    ELSE "none"

(* `try: ... except Exception as e: TELEMETRY.log(...);                    *)
(* context.abort(UNAUTHENTICATED, ...)` around the checks of a handler:    *)
(* `t` is how the try block ended, "raise" (an exception of the verifier)  *)
(* or the code of a context.abort inside it, whose exception the except    *)
(* block catches as well.                                                  *)
AuthFailed(k, t, e) ==
    [k EXCEPT !.pc = "done", !.end = "abort", !.logs = k.logs + 1,
              !.aborts = (IF t = "raise" THEN <<>> ELSE <<t>>)
                         \o <<"UNAUTHENTICATED">>,
              !.shown = e]

(* str(e) in `except Exception as e`: the text of the verifier's exception *)
(* or, when the verifier passed, of the Redis client's; context.abort      *)
(* raises a bare Exception(), whose text is empty.                         *)
str_e(t, v) ==
    IF t # "raise" THEN ""
    ELSE IF v.ok THEN "ConnectionError"
    ELSE v.error

----------------------------------------------------------------------------
(* context_tool_server.py *)

Threshold == 3
RecoveryTime == 30

(* History of the run, kept beside the servers and read by no handler:    *)
(* consec counts the failures recorded since the last recorded success,   *)
(* tripped says that Threshold consecutive failures were recorded and no  *)
(* call admitted as a probe (k.probe: admitted while the breaker was      *)
(* open) has recorded success since.  served keeps, per context key and   *)
(* parameter dict, the response last returned by RequestContext since the *)
(* backing store last changed; published counts, per topic, the Publish   *)
(* calls that passed the checks of the event bus; registered keeps, per   *)
(* server name, the arguments of the last register_in_redis that         *)
(* returned and whether it replaced an earlier record.                    *)
NoHistory ==
    [consec |-> 0, tripped |-> FALSE, served |-> <<>>, published |-> <<>>,
     registered |-> <<>>]

Recorded(h, k, success) ==
    IF success
    THEN [h EXCEPT !.consec = 0,
                   !.tripped = IF k.probe THEN FALSE ELSE h.tripped]
    ELSE [h EXCEPT !.consec = h.consec + 1,
                   !.tripped = h.tripped \/ h.consec + 1 >= Threshold]

\* the request of call k: its context key and its parameter dict
Request(k) == <<k.key, ToSet(k.items)>>

\* the response resp was returned to the request of call k
Served(h, k, resp) == [h EXCEPT !.served = (Request(k) :> resp) @@ h.served]

\* a gate that verifies the token and asks for no capability
RequestContext_ungated(v) == IF ~v.ok THEN "raise" ELSE "pass"

\* a gate that leaves out the audience check of line 99
RequestContext_anyaud(v) ==
    IF ~v.ok THEN "raise"
    ELSE IF ~has_capability(v.payload, CAP_db_inventory_read)
         THEN "PERMISSION_DENIED"
    ELSE "pass"

\* RequestContext, lines 95-100: how the try block ends
RequestContext_try(v) ==
    IF ~v.ok THEN "raise"
    ELSE IF ~has_capability(v.payload, CAP_db_inventory_read)
         THEN "PERMISSION_DENIED"
    ELSE IF ~has_audience(v.payload, SN_ContextTool) THEN "PERMISSION_DENIED"
    ELSE "pass"

(* request.parameters: a dict, here its items in insertion order.  Lex     *)
(* lists the parameter names as str comparison orders them.                *)
Lex == <<"region", "sku">>
Parameters ==
    { << <<"region", "eu">>, <<"sku", "12345">> >>,
      << <<"sku", "12345">>, <<"region", "eu">> >> }

Rank(name) == CHOOSE i \in 1..Len(Lex) : Lex[i] = name

\* the items as the dict iterates over them, unsorted
RECURSIVE unsorted_items(_)
unsorted_items(items) ==
    IF items = <<>> THEN <<>>
    ELSE <<Head(items)>> \o unsorted_items(Tail(items))

\* the items with a name ranked below (after = FALSE) or not below that of item
RECURSIVE Side(_, _, _, _)
Side(items, item, after, i) ==
    IF i > Len(items) THEN <<>>
    ELSE (IF (Rank(items[i][1]) >= Rank(item[1])) = after
          THEN <<items[i]>> ELSE <<>>)
         \o Side(items, item, after, i + 1)

\* sorted(request.parameters.items()): the names of a dict are distinct
RECURSIVE sorted_items(_)
sorted_items(items) ==
    IF items = <<>> THEN <<>>
    ELSE sorted_items(Side(Tail(items), Head(items), FALSE, 1))
         \o <<Head(items)>>
         \o sorted_items(Side(Tail(items), Head(items), TRUE, 1))

RequestContext_Start(c) ==
    /\ proc = "ContextTool" /\ c \in Workers /\ call[c].pc = "idle"
    /\ \E token \in CtTokens, key \in ContextKeys, parameters \in Parameters,
          resp \in Answers(jwks_cache, jwks_last_fetch, now) :
         \E v \in {verify_jwt_token(token, SN_ContextTool, jwks_cache,
                                   jwks_last_fetch, now, resp)} :
         \E t \in {RequestContext_try(v)} :
         \E k \in {[IdleCall EXCEPT
                     !.rpc = "RequestContext", !.key = key,
                     !.items = sorted_items(parameters),
                     !.verified = v.ok,
                     !.named = v.ok /\ has_audience(v.payload, SN_ContextTool),
                     !.granted = v.ok /\ has_capability(v.payload,
                                                        CAP_db_inventory_read)]} :
            /\ jwks_cache' = v.cache
            /\ jwks_last_fetch' = v.last
            /\ call' = [call EXCEPT ![c] =
                          IF t = "pass"
                          THEN [k EXCEPT !.pc = "guard", !.sub = v.payload.sub,
                                         !.parent_caps = v.payload.capabilities]
                          ELSE AuthFailed(k, t, str_e(t, v))]
    /\ UNCHANGED <<now, callVars, proc, pool, registry, TOPIC_COUNTER, ctVars>>

\* f"context::{request.context_key}::{tuple(sorted(request.parameters.items()))}"
cache_key(context_key, items) == <<"context", context_key, items>>

\* lines 110-131 with the cache consulted before the breaker
RequestContext_Guard_cache_first(c) ==
    /\ proc = "ContextTool" /\ c \in Workers
    /\ call[c].rpc = "RequestContext" /\ call[c].pc = "guard"
    /\ LET k == call[c]
           cached == cache_get(CACHE, cache_key(k.key, k.items))
       IN IF cached # NoResp
          THEN /\ call' = [call EXCEPT ![c] =
                 [k EXCEPT !.pc = "done", !.end = "return", !.logs = k.logs + 1,
                           !.probe = CIRCUIT.open, !.out = <<cached>>,
                           !.again = Request(k) \in DOMAIN hist.served,
                           !.fx = k.fx \cup {"cache_read"}]]
               /\ hist' = Served(hist, k, cached)
          ELSE IF ~before_call(CIRCUIT, now)
          THEN /\ call' = [call EXCEPT ![c] =
                 [k EXCEPT !.pc = "done", !.end = "abort", !.logs = k.logs + 1,
                           !.aborts = k.aborts \o <<"UNAVAILABLE">>,
                           !.fx = k.fx \cup {"cache_read"}]]
               /\ UNCHANGED hist
          ELSE /\ call' = [call EXCEPT ![c] =
                 [k EXCEPT !.pc = "db", !.probe = CIRCUIT.open,
                           !.fx = k.fx \cup {"cache_read"}]]
               /\ UNCHANGED hist
    /\ UNCHANGED <<now, authVars, callVars, proc, pool, registry, TOPIC_COUNTER,
                   CIRCUIT, CACHE, db>>

\* lines 110-131: the breaker, then the cache
RequestContext_Guard(c) ==
    /\ proc = "ContextTool" /\ c \in Workers
    /\ call[c].rpc = "RequestContext" /\ call[c].pc = "guard"
    /\ LET k == call[c]
           cached == cache_get(CACHE, cache_key(k.key, k.items))
       IN IF ~before_call(CIRCUIT, now)
          THEN /\ call' = [call EXCEPT ![c] =
                 [k EXCEPT !.pc = "done", !.end = "abort", !.logs = k.logs + 1,
                           !.aborts = k.aborts \o <<"UNAVAILABLE">>]]
               /\ UNCHANGED hist
          ELSE IF cached # NoResp
          THEN /\ call' = [call EXCEPT ![c] =
                 [k EXCEPT !.pc = "done", !.end = "return", !.logs = k.logs + 1,
                           !.probe = CIRCUIT.open, !.out = <<cached>>,
                           !.again = Request(k) \in DOMAIN hist.served,
                           !.fx = k.fx \cup {"cache_read"}]]
               /\ hist' = Served(hist, k, cached)
          ELSE /\ call' = [call EXCEPT ![c] =
                 [k EXCEPT !.pc = "db", !.probe = CIRCUIT.open,
                           !.fx = k.fx \cup {"cache_read"}]]
               /\ UNCHANGED hist
    /\ UNCHANGED <<now, authVars, callVars, proc, pool, registry, TOPIC_COUNTER,
                   CIRCUIT, CACHE, db>>

\* lines 136-150: the response built from the row, or from its absence
ContextResponse(table, key) ==
    IF key \in DOMAIN table THEN table[key]
    ELSE [serialized_value |-> "", metadata |-> <<>>]

\* lines 133-174: session.get returns the row or None, or raises
RequestContext_Db(c) ==
    /\ proc = "ContextTool" /\ c \in Workers
    /\ call[c].rpc = "RequestContext" /\ call[c].pc = "db"
    /\ LET k == call[c] IN
       \/ /\ CACHE' = cache_set(CACHE, cache_key(k.key, k.items),
                                ContextResponse(db, k.key), 60)
          /\ CIRCUIT' = after_call(CIRCUIT, TRUE, now)
          /\ hist' = Served(Recorded(hist, k, TRUE), k,
                            ContextResponse(db, k.key))
          /\ call' = [call EXCEPT ![c] =
                 [k EXCEPT !.pc = "done", !.end = "return", !.logs = k.logs + 1,
                           !.out = <<ContextResponse(db, k.key)>>,
                           !.again = Request(k) \in DOMAIN hist.served,
                           !.fx = k.fx \cup {"db_read", "cache_write",
                                             "breaker_update"}]]
       \/ /\ CIRCUIT.failure_count < MaxFailures
          /\ CIRCUIT' = after_call(CIRCUIT, FALSE, now)
          /\ hist' = Recorded(hist, k, FALSE)
          /\ call' = [call EXCEPT ![c] =
                 [k EXCEPT !.pc = "done", !.end = "abort", !.logs = k.logs + 1,
                           !.aborts = k.aborts \o <<"INTERNAL">>,
                           !.shown = "OperationalError", !.t0 = now,
                           !.fx = k.fx \cup {"db_read", "breaker_update"}]]
          /\ UNCHANGED CACHE
    /\ UNCHANGED <<now, authVars, callVars, proc, pool, registry, TOPIC_COUNTER, db>>

\* InvokeTool, lines 287-300: how the try block ends, and with which payload
InvokeTool_try(v, required_cap, del_proof, d) ==
    LET Ends(t, p, deleg) == [t |-> t, payload |-> p, delegated |-> deleg] IN
    IF ~v.ok THEN Ends("raise", v.payload, FALSE)
    ELSE IF has_capability(v.payload, required_cap)
    THEN IF has_audience(v.payload, SN_ContextTool)
         THEN Ends("pass", v.payload, FALSE)
         ELSE Ends("PERMISSION_DENIED", v.payload, FALSE)
    ELSE IF del_proof.raw = "empty" THEN Ends("PERMISSION_DENIED", v.payload, FALSE)
    ELSE IF ~d.ok THEN Ends("raise", v.payload, FALSE)
    ELSE IF required_cap \notin ToSet(Get(d.payload, "capabilities", <<>>))
         THEN Ends("PERMISSION_DENIED", v.payload, FALSE)
    ELSE IF has_audience(d.payload, SN_ContextTool)
         THEN Ends("pass", d.payload, TRUE)
         ELSE Ends("PERMISSION_DENIED", d.payload, TRUE)

InvokeTool_Start(c) ==
    /\ proc = "ContextTool" /\ c \in Workers /\ call[c].pc = "idle"
    /\ \E token \in CtTokens, tool_name \in ToolNames,
          del_proof \in DelegationProofs,
          resp \in Answers(jwks_cache, jwks_last_fetch, now) :
         \E v \in {verify_jwt_token(token, SN_ContextTool, jwks_cache,
                                   jwks_last_fetch, now, resp)} :
         \E required_cap \in {PFX_tool \o tool_name} :
         \E d \in {verify_delegation_proof(del_proof, SN_ContextTool, v.payload,
                                          v.cache, v.last, now, resp)} :
         \E e \in {InvokeTool_try(v, required_cap, del_proof, d)} :
         \E direct \in {v.ok /\ has_capability(v.payload, required_cap)} :
         \E consulted \in {v.ok /\ ~direct /\ del_proof.raw # "empty"} :
         \E k \in {[IdleCall EXCEPT
                     !.rpc = "InvokeTool", !.tool = tool_name,
                     !.verified = v.ok,
                     !.granted = direct \/ (consulted /\ d.ok /\ required_cap \in
                                   ToSet(Get(d.payload, "capabilities", <<>>))),
                     !.delegated = e.delegated,
                     !.proof = IF ~consulted THEN "none"
                               ELSE IF d.ok THEN "accepted" ELSE d.error,
                     !.parent_caps = Get(v.payload, "capabilities", <<>>)]} :
            /\ jwks_cache' = IF consulted THEN d.cache ELSE v.cache
            /\ jwks_last_fetch' = IF consulted THEN d.last ELSE v.last
            /\ call' = [call EXCEPT ![c] =
                          IF e.t = "pass"
                          THEN [k EXCEPT !.pc = "guard", !.sub = e.payload.sub]
                          ELSE AuthFailed(k, e.t,
                                 IF e.t # "raise" THEN ""
                                 ELSE IF ~v.ok THEN v.error ELSE d.error)]
    /\ UNCHANGED <<now, callVars, proc, pool, registry, TOPIC_COUNTER, ctVars>>

\* lines 311-319
InvokeTool_Guard(c) ==
    /\ proc = "ContextTool" /\ c \in Workers
    /\ call[c].rpc = "InvokeTool" /\ call[c].pc = "guard"
    /\ LET k == call[c] IN
       IF ~before_call(CIRCUIT, now)
       THEN call' = [call EXCEPT ![c] =
                 [k EXCEPT !.pc = "done", !.end = "abort", !.logs = k.logs + 1,
                           !.aborts = k.aborts \o <<"UNAVAILABLE">>]]
       ELSE call' = [call EXCEPT ![c] =
                 [k EXCEPT !.pc = "tool", !.probe = CIRCUIT.open]]
    /\ UNCHANGED <<now, authVars, callVars, proc, pool, registry, TOPIC_COUNTER,
                   ctVars>>

(* lines 321-340: the tool runs; int(request.arguments.get("stock_count",  *)
(* "0")) raises ValueError, outside any try, on text that is no integer.   *)
InvokeTool_Run(c) ==
    /\ proc = "ContextTool" /\ c \in Workers
    /\ call[c].rpc = "InvokeTool" /\ call[c].pc = "tool"
    /\ LET k == call[c] IN
       \/ /\ CIRCUIT' = after_call(CIRCUIT, TRUE, now)
          /\ hist' = Recorded(hist, k, TRUE)
          /\ call' = [call EXCEPT ![c] =
                 [k EXCEPT !.pc = "done", !.end = "return", !.logs = k.logs + 1,
                           !.fx = k.fx \cup {"tool_run", "breaker_update"}]]
       \/ /\ k.tool = compute_pricing
          /\ call' = [call EXCEPT ![c] =
                 [k EXCEPT !.pc = "done", !.end = "raise",
                           !.fx = k.fx \cup {"tool_run"}]]
          /\ UNCHANGED <<CIRCUIT, hist>>
    /\ UNCHANGED <<now, authVars, callVars, proc, pool, registry, TOPIC_COUNTER, CACHE, db>>

\* SubscribeTelemetry, lines 185-190
SubscribeTelemetry_try(v) ==
    IF ~v.ok THEN "raise"
    ELSE IF ~has_capability(v.payload, CAP_telemetry_read)
         THEN "PERMISSION_DENIED"
    ELSE IF ~has_audience(v.payload, SN_ContextTool) THEN "PERMISSION_DENIED"
    ELSE "pass"

(* lines 184-210: the checks, then pubsub.subscribe (which raises, outside *)
(* any try, when the broker is down) and the "subscribed" record.          *)
SubscribeTelemetry_Start(c) ==
    /\ proc = "ContextTool" /\ c \in Workers /\ call[c].pc = "idle"
    /\ \E token \in CtTokens, broker_up \in BOOLEAN,
          resp \in Answers(jwks_cache, jwks_last_fetch, now) :
         \E v \in {verify_jwt_token(token, SN_ContextTool, jwks_cache,
                                   jwks_last_fetch, now, resp)} :
         \E t \in {SubscribeTelemetry_try(v)} :
         \E k \in {[IdleCall EXCEPT
                     !.rpc = "SubscribeTelemetry",
                     !.verified = v.ok,
                     !.granted = v.ok /\ has_capability(v.payload,
                                                        CAP_telemetry_read)]} :
            /\ jwks_cache' = v.cache
            /\ jwks_last_fetch' = v.last
            /\ call' = [call EXCEPT ![c] =
                          IF t # "pass" THEN AuthFailed(k, t, str_e(t, v))
                          ELSE IF ~broker_up
                          THEN [k EXCEPT !.pc = "done", !.end = "raise"]
                          ELSE [k EXCEPT !.pc = "stream", !.sub = v.payload.sub,
                                         !.logs = k.logs + 1,
                                         !.fx = {"broker_subscribe"}]]
    /\ UNCHANGED <<now, callVars, proc, pool, registry, TOPIC_COUNTER, ctVars>>

(* lines 212-236, one turn of `for message in pubsub.listen()`: the loop   *)
(* breaks when the caller is gone, else the frame is written; or listen()  *)
(* raises, which is logged and aborts with INTERNAL.                       *)
SubscribeTelemetry_Message(c) ==
    /\ proc = "ContextTool" /\ c \in Workers
    /\ call[c].rpc = "SubscribeTelemetry" /\ call[c].pc = "stream"
    /\ LET k == call[c] IN
       call' = [call EXCEPT ![c] =
                  IF ~k.active
                  THEN [k EXCEPT !.pc = "done", !.end = "return"]
                  ELSE [k EXCEPT !.fx = k.fx \cup {"frame_write"}]]
    /\ UNCHANGED <<now, authVars, callVars, proc, pool, registry, TOPIC_COUNTER, ctVars>>

SubscribeTelemetry_Fail(c) ==
    /\ proc = "ContextTool" /\ c \in Workers
    /\ call[c].rpc = "SubscribeTelemetry" /\ call[c].pc = "stream"
    /\ LET k == call[c] IN
       call' = [call EXCEPT ![c] =
                  [k EXCEPT !.pc = "done", !.end = "abort", !.logs = k.logs + 1,
                            !.aborts = k.aborts \o <<"INTERNAL">>]]
    /\ UNCHANGED <<now, authVars, callVars, proc, pool, registry, TOPIC_COUNTER, ctVars>>

\* the caller of a streaming RPC goes away
ClientDisconnect(c) ==
    /\ c \in Workers /\ call[c].pc = "stream" /\ call[c].active
    /\ call' = [call EXCEPT ![c].active = FALSE]
    /\ UNCHANGED <<now, authVars, callVars, proc, pool, registry, TOPIC_COUNTER, ctVars>>

\* MultiModalExchange, lines 251-260, on the first frame
MultiModalExchange_try(token, v) ==
    IF token.raw = "empty" THEN "PERMISSION_DENIED"
    ELSE IF ~v.ok THEN "raise"
    ELSE IF ~has_capability(v.payload, CAP_tool_multimodal)
         THEN "PERMISSION_DENIED"
    ELSE IF ~has_audience(v.payload, SN_ContextTool) THEN "PERMISSION_DENIED"
    ELSE "pass"

(* lines 248-277, up to the first yield.  With no frame at all the loop    *)
(* body never runs and token_payload["sub"] of the "completed" record      *)
(* raises TypeError on None, which the except block logs and aborts.       *)
MultiModalExchange_Start(c) ==
    /\ proc = "ContextTool" /\ c \in Workers /\ call[c].pc = "idle"
    /\ \E token \in CtTokens, frames \in BOOLEAN,
          resp \in Answers(jwks_cache, jwks_last_fetch, now) :
         \E checked \in {frames /\ token.raw # "empty"} :
         \E v \in {verify_jwt_token(token, SN_ContextTool, jwks_cache,
                                   jwks_last_fetch, now, resp)} :
         \E t \in {IF frames THEN MultiModalExchange_try(token, v) ELSE "raise"} :
         \E k \in {[IdleCall EXCEPT
                     !.rpc = "MultiModalExchange",
                     !.verified = checked /\ v.ok,
                     !.granted = checked /\ v.ok
                                 /\ has_capability(v.payload, CAP_tool_multimodal)]} :
            /\ jwks_cache' = IF checked THEN v.cache ELSE jwks_cache
            /\ jwks_last_fetch' = IF checked THEN v.last ELSE jwks_last_fetch
            /\ call' = [call EXCEPT ![c] =
                          IF t = "pass"
                          THEN [k EXCEPT !.pc = "stream", !.sub = v.payload.sub,
                                         !.fx = {"frame_echo"}]
                          ELSE AuthFailed(k, t, IF frames THEN str_e(t, v)
                                                ELSE "TypeError")]
    /\ UNCHANGED <<now, callVars, proc, pool, registry, TOPIC_COUNTER, ctVars>>

\* lines 249-269: the request stream ends and the "completed" record is written
MultiModalExchange_End(c) ==
    /\ proc = "ContextTool" /\ c \in Workers
    /\ call[c].rpc = "MultiModalExchange" /\ call[c].pc = "stream"
    /\ LET k == call[c] IN
       call' = [call EXCEPT ![c] =
                  [k EXCEPT !.pc = "done", !.end = "return",
                            !.logs = k.logs + 1]]
    /\ UNCHANGED <<now, authVars, callVars, proc, pool, registry, TOPIC_COUNTER, ctVars>>

----------------------------------------------------------------------------
(* registry_server.py *)

RegCapLists == { <<CAP_registry_register>>, <<CAP_registry_lookup>>,
                 <<<<"r","e","g","i","s","t","r","y",":","*">>>>, <<>> }

ServerNames == { <<"A">>, <<"B">> }

\* callers of the registry: aud names the registry and the servers looked for
RegTokens ==
    {Signed(Claims(AudList(<<SN_Registry>> \o names), "alice", caps)) :
        caps \in RegCapLists,
        names \in { <<>>, << <<"A">> >>, << <<"B","*">> >> }}
    \cup BadTokens(SN_Registry, <<CAP_registry_register, CAP_registry_lookup>>)
    \cup {NoAud(<<CAP_registry_register, CAP_registry_lookup>>)}

Advertised == { <<CAP_db_inventory_read, CAP_telemetry_read>>,
                <<CAP_db_inventory_any>> }

\* a registration that leaves an existing record of the name in place
register_keep_first(store, server_name, grpc_url, capabilities, t) ==
    IF server_name \in DOMAIN store THEN store
    ELSE (server_name :> [grpc_url |-> grpc_url, capabilities |-> capabilities,
                          registered_at |-> t]) @@ store

\* register_in_redis: REDIS.set(key, json.dumps(value))
register_in_redis(store, server_name, grpc_url, capabilities, t) ==
    (server_name :> [grpc_url |-> grpc_url, capabilities |-> capabilities,
                     registered_at |-> t]) @@ store

\* register_in_redis(server_name, grpc_url, capabilities) returned
Registered(h, server_name, grpc_url, capabilities) ==
    [h EXCEPT !.registered =
        (server_name :> [grpc_url |-> grpc_url, capabilities |-> capabilities,
                         replaced |-> server_name \in DOMAIN h.registered])
        @@ h.registered]

\* Register, lines 78-87, after the token was found: how the try block ends
Register_try(v, grpc_url, redis_up) ==
    IF ~v.ok THEN "raise"
    ELSE IF ~has_capability(v.payload, CAP_registry_register)
         THEN "PERMISSION_DENIED"
    ELSE IF grpc_url = "" THEN "INVALID_ARGUMENT"
    ELSE IF ~redis_up THEN "raise"
    ELSE "pass"

Register(c) ==
    /\ proc = "Registry" /\ c \in Workers /\ call[c].pc = "idle"
    /\ \E token \in RegTokens, grpc_url \in {"", "127.0.0.1:50051"},
          server_name \in ServerNames, capabilities \in Advertised,
          redis_up \in BOOLEAN,
          resp \in Answers(jwks_cache, jwks_last_fetch, now) :
         \E missing \in {token.raw = "empty"} :
         \E v \in {verify_jwt_token(token, SN_Registry, jwks_cache,
                                   jwks_last_fetch, now, resp)} :
         \E t \in {Register_try(v, grpc_url, redis_up)} :
         \E k \in {[IdleCall EXCEPT
                     !.rpc = "Register",
                     !.verified = ~missing /\ v.ok,
                     !.granted = ~missing /\ v.ok
                                 /\ has_capability(v.payload, CAP_registry_register)]} :
            /\ jwks_cache' = IF missing THEN jwks_cache ELSE v.cache
            /\ jwks_last_fetch' = IF missing THEN jwks_last_fetch ELSE v.last
            /\ registry' = IF ~missing /\ t = "pass"
                           THEN register_in_redis(registry, server_name, grpc_url,
                                                  capabilities, now)
                           ELSE registry
            /\ call' = [call EXCEPT ![c] =
                 IF missing
                 THEN [k EXCEPT !.pc = "done", !.end = "abort",
                                !.aborts = <<"UNAUTHENTICATED">>]
                 ELSE IF t = "pass"
                 THEN [k EXCEPT !.pc = "done", !.end = "return",
                                !.sub = v.payload.sub, !.logs = 1,
                                !.fx = {"registry_write"}]
                 ELSE AuthFailed(k, t, str_e(t, v))]
    /\ UNCHANGED <<now, callVars, proc, pool, ctVars, TOPIC_COUNTER>>

\* the match of line 54 with the filter taken as the wildcard
RECURSIVE caps_match_reversed(_, _, _)
caps_match_reversed(caps, cap_filter, j) ==
    IF j > Len(caps) THEN FALSE
    ELSE IF caps[j] = cap_filter
            \/ (endswith_star(cap_filter) /\ startswith(caps[j], drop_last(cap_filter)))
         THEN TRUE
    ELSE caps_match_reversed(caps, cap_filter, j + 1)

\* lookup_in_redis, lines 52-59: does some capability of the entry match cap_filter
RECURSIVE caps_match(_, _, _)
caps_match(caps, cap_filter, j) ==
    IF j > Len(caps) THEN FALSE
    ELSE IF caps[j] = cap_filter
            \/ (endswith_star(caps[j]) /\ startswith(cap_filter, drop_last(caps[j])))
         THEN TRUE
    ELSE caps_match(caps, cap_filter, j + 1)

\* lines 51-62: the entry is appended at the first filter that matches, once
RECURSIVE entry_appended(_, _, _)
entry_appended(caps, cap_filters, i) ==
    IF i > Len(cap_filters) THEN FALSE
    ELSE IF caps_match(caps, cap_filters[i], 1) THEN TRUE
    ELSE entry_appended(caps, cap_filters, i + 1)

\* the entry appended for every filter that matches: no `break` at line 62
RECURSIVE per_filter(_, _, _, _)
per_filter(entry, caps, cap_filters, i) ==
    IF i > Len(cap_filters) THEN <<>>
    ELSE (IF caps_match(caps, cap_filters[i], 1) THEN <<entry>> ELSE <<>>)
         \o per_filter(entry, caps, cap_filters, i + 1)

RECURSIVE lookup_nobreak(_, _, _, _)
lookup_nobreak(store, cap_filters, order, n) ==
    IF n > Len(order) THEN <<>>
    ELSE per_filter([server_name |-> order[n],
                     grpc_url |-> store[order[n]].grpc_url,
                     capabilities |-> store[order[n]].capabilities],
                    store[order[n]].capabilities, cap_filters, 1)
         \o lookup_nobreak(store, cap_filters, order, n + 1)

\* lookup_in_redis(cap_filters), with scan_iter yielding the keys in `order`
RECURSIVE lookup_in_redis(_, _, _, _)
lookup_in_redis(store, cap_filters, order, n) ==
    IF n > Len(order) THEN <<>>
    ELSE LET data == store[order[n]]
             here == IF entry_appended(data.capabilities, cap_filters, 1)
                     THEN <<[server_name |-> order[n], grpc_url |-> data.grpc_url,
                             capabilities |-> data.capabilities]>>
                     ELSE <<>>
         IN here \o lookup_in_redis(store, cap_filters, order, n + 1)

\* the orders in which scan_iter may yield the keys
ScanOrders(store) ==
    {o \in [1..Cardinality(DOMAIN store) -> DOMAIN store] :
        \A i, j \in DOMAIN o : i # j => o[i] # o[j]}

\* Lookup returning every match, whatever the caller's aud
RECURSIVE by_anyone(_, _, _)
by_anyone(payload, matches, n) ==
    IF n > Len(matches) THEN <<>>
    ELSE <<matches[n]>> \o by_anyone(payload, matches, n + 1)

\* Lookup, lines 122-129: the matches the caller's aud names
RECURSIVE by_audience(_, _, _)
by_audience(payload, matches, n) ==
    IF n > Len(matches) THEN <<>>
    ELSE (IF has_audience(payload, matches[n].server_name)
          THEN <<matches[n]>> ELSE <<>>)
         \o by_audience(payload, matches, n + 1)

Lookup_try(v, redis_up) ==
    IF ~v.ok THEN "raise"
    ELSE IF ~has_capability(v.payload, CAP_registry_lookup)
         THEN "PERMISSION_DENIED"
    ELSE IF ~redis_up THEN "raise"
    ELSE "pass"

Filters == { <<CAP_db_inventory_read>>, <<CAP_telemetry_read, CAP_db_inventory_read>>,
             <<>> }

Lookup(c) ==
    /\ proc = "Registry" /\ c \in Workers /\ call[c].pc = "idle"
    /\ \E token \in RegTokens, capability_filter \in Filters,
          redis_up \in BOOLEAN, order \in ScanOrders(registry),
          resp \in Answers(jwks_cache, jwks_last_fetch, now) :
         \E missing \in {token.raw = "empty"} :
         \E v \in {verify_jwt_token(token, SN_Registry, jwks_cache,
                                   jwks_last_fetch, now, resp)} :
         \E t \in {Lookup_try(v, redis_up)} :
         \E k \in {[IdleCall EXCEPT
                     !.rpc = "Lookup",
                     !.verified = ~missing /\ v.ok,
                     !.granted = ~missing /\ v.ok
                                 /\ has_capability(v.payload, CAP_registry_lookup)]} :
            /\ jwks_cache' = IF missing THEN jwks_cache ELSE v.cache
            /\ jwks_last_fetch' = IF missing THEN jwks_last_fetch ELSE v.last
            /\ call' = [call EXCEPT ![c] =
                 IF missing
                 THEN [k EXCEPT !.pc = "done", !.end = "abort",
                                !.aborts = <<"UNAUTHENTICATED">>]
                 ELSE IF t = "pass"
                 THEN [k EXCEPT !.pc = "done", !.end = "return",
                                !.sub = v.payload.sub, !.logs = 1,
                                !.fx = {"registry_scan"},
                                !.aud = Get(v.payload, "aud", AudList(<<>>)).v,
                                !.filter = capability_filter,
                                !.out = by_audience(v.payload,
                                          lookup_in_redis(registry, capability_filter,
                                                          order, 1), 1)]
                 ELSE AuthFailed(k, t, str_e(t, v))]
    /\ UNCHANGED <<now, callVars, proc, pool, ctVars, registry, TOPIC_COUNTER>>

----------------------------------------------------------------------------
(* event_bus_server.py *)

\* topic.split(":")[0]
RECURSIVE first_segment(_, _)
first_segment(topic, i) ==
    IF i > Len(topic) \/ topic[i] = ":" THEN SubSeq(topic, 1, i - 1)
    ELSE first_segment(topic, i + 1)

Topics == { <<"i","n","v",":","l","o","w">>, <<"o","p","s">> }
TopicFilters == Topics \cup { <<"i","n","v",":","*">> }

BusCapLists ==
    { <<PFX_event_publish \o <<"i","n","v",":","*">>,
        PFX_event_subscribe \o <<"i","n","v",":","*">> >>,
      <<PFX_event_publish \o <<"o","p","s">> >>,
      <<PFX_event_subscribe \o <<"i","n","v","*">> >>,
      <<>> }

BusTokens ==
    {Signed(Claims(AudStr(SN_EventBus), "alice", caps)) : caps \in BusCapLists}
    \cup BadTokens(SN_EventBus, <<PFX_event_publish \o <<"*">> >>)
    \cup {NoAud(<<PFX_event_publish \o <<"*">>, PFX_event_subscribe \o <<"*">> >>)}

(* Publish lines 40-47 and Subscribe lines 85-92: the exact capability,    *)
(* then on denial the wildcard form over the topic's first segment.        *)
event_granted(payload, prefix, topic) ==
    IF ~has_capability(payload, prefix \o topic)
    THEN has_capability(payload, prefix \o first_segment(topic, 1) \o <<"*">>)
    ELSE TRUE

\* Publish, lines 38-49: how the try block ends
Publish_try(v, topic) ==
    IF ~v.ok THEN "raise"
    ELSE IF ~event_granted(v.payload, PFX_event_publish, topic)
         THEN "PERMISSION_DENIED"
    ELSE IF ~has_audience(v.payload, SN_EventBus) THEN "PERMISSION_DENIED"
    ELSE "pass"

\* one counter for all topics
next_seq_shared(counter, topic) ==
    IF DOMAIN counter = {} THEN 1
    ELSE 1 + CHOOSE n \in {counter[x] : x \in DOMAIN counter} :
               \A x \in DOMAIN counter : counter[x] <= n

\* line 60: TOPIC_COUNTER.get(request.topic, 0) + 1
next_seq(counter, topic) == Get(counter, topic, 0) + 1

\* one more Publish to topic passed the checks
Admitted(h, topic) ==
    [h EXCEPT !.published = (topic :> Get(h.published, topic, 0) + 1)
                            @@ h.published]

(* Publish, lines 38-60: the checks, then the read of the topic's counter  *)
(* into the local seq.  Nothing holds the other workers back between this  *)
(* read and the write of line 61.                                          *)
Publish(c) ==
    /\ proc = "EventBus" /\ c \in Workers /\ call[c].pc = "idle"
    /\ \E token \in BusTokens, topic \in Topics,
          resp \in Answers(jwks_cache, jwks_last_fetch, now) :
         \E v \in {verify_jwt_token(token, SN_EventBus, jwks_cache,
                                   jwks_last_fetch, now, resp)} :
         \E t \in {Publish_try(v, topic)} :
         \E seq \in {next_seq(TOPIC_COUNTER, topic)} :
         \E k \in {[IdleCall EXCEPT
                     !.rpc = "Publish",
                     !.verified = v.ok,
                     !.granted = v.ok /\
                        (\/ has_capability(v.payload, PFX_event_publish \o topic)
                         \/ has_capability(v.payload, PFX_event_publish
                               \o first_segment(topic, 1) \o <<"*">>))]} :
            /\ t = "pass" => seq <= MaxSeq
            /\ jwks_cache' = v.cache
            /\ jwks_last_fetch' = v.last
            /\ hist' = IF t = "pass" THEN Admitted(hist, topic) ELSE hist
            /\ call' = [call EXCEPT ![c] =
                 IF t # "pass" THEN AuthFailed(k, t, str_e(t, v))
                 ELSE [k EXCEPT !.pc = "store", !.sub = v.payload.sub,
                                !.tool = topic, !.seq = seq]]
    /\ UNCHANGED <<now, callVars, proc, pool, CIRCUIT, CACHE, db, registry,
                   TOPIC_COUNTER>>

(* Publish, lines 61-79: the write of the counter, redis publish (which    *)
(* raises, outside any try, when the broker is down) and the record.       *)
Publish_Store(c) ==
    /\ proc = "EventBus" /\ c \in Workers
    /\ call[c].rpc = "Publish" /\ call[c].pc = "store"
    /\ TOPIC_COUNTER' = (call[c].tool :> call[c].seq) @@ TOPIC_COUNTER
    /\ \E broker_up \in BOOLEAN :
         call' = [call EXCEPT ![c] =
            IF ~broker_up
            THEN [call[c] EXCEPT !.pc = "done", !.end = "raise",
                                 !.fx = {"seq_increment"}]
            ELSE [call[c] EXCEPT !.pc = "done", !.end = "return", !.logs = 1,
                                 !.fx = {"seq_increment", "broker_publish"}]]
    /\ UNCHANGED <<now, authVars, callVars, proc, pool, ctVars, registry>>

\* Subscribe, lines 85-94
Subscribe_try(v, topic_filter) ==
    IF ~v.ok THEN "raise"
    ELSE IF ~event_granted(v.payload, PFX_event_subscribe, topic_filter)
         THEN "PERMISSION_DENIED"
    ELSE IF ~has_audience(v.payload, SN_EventBus) THEN "PERMISSION_DENIED"
    ELSE "pass"

(* lines 85-120: the checks, then psubscribe or subscribe (which raises,   *)
(* outside any try, when the broker is down) and the "subscribed" record   *)
Subscribe_Start(c) ==
    /\ proc = "EventBus" /\ c \in Workers /\ call[c].pc = "idle"
    /\ \E token \in BusTokens, topic_filter \in TopicFilters,
          broker_up \in BOOLEAN,
          resp \in Answers(jwks_cache, jwks_last_fetch, now) :
         \E v \in {verify_jwt_token(token, SN_EventBus, jwks_cache,
                                   jwks_last_fetch, now, resp)} :
         \E t \in {Subscribe_try(v, topic_filter)} :
         \E k \in {[IdleCall EXCEPT
                     !.rpc = "Subscribe",
                     !.verified = v.ok,
                     !.granted = v.ok /\
                        (\/ has_capability(v.payload,
                                           PFX_event_subscribe \o topic_filter)
                         \/ has_capability(v.payload, PFX_event_subscribe
                               \o first_segment(topic_filter, 1) \o <<"*">>))]} :
            /\ jwks_cache' = v.cache
            /\ jwks_last_fetch' = v.last
            /\ call' = [call EXCEPT ![c] =
                 IF t # "pass" THEN AuthFailed(k, t, str_e(t, v))
                 ELSE IF ~broker_up
                 THEN [k EXCEPT !.pc = "done", !.end = "raise"]
                 ELSE [k EXCEPT !.pc = "stream", !.sub = v.payload.sub,
                                !.tool = topic_filter, !.logs = 1,
                                !.fx = {"broker_subscribe"}]]
    /\ UNCHANGED <<now, callVars, proc, pool, ctVars, registry, TOPIC_COUNTER>>

\* lines 122-137, one turn of `for message in pubsub.listen()`
Subscribe_Message(c) ==
    /\ proc = "EventBus" /\ c \in Workers
    /\ call[c].rpc = "Subscribe" /\ call[c].pc = "stream"
    /\ LET k == call[c] IN
       call' = [call EXCEPT ![c] =
                  IF ~k.active
                  THEN [k EXCEPT !.pc = "done", !.end = "return"]
                  ELSE [k EXCEPT !.fx = k.fx \cup {"frame_write"}]]
    /\ UNCHANGED <<now, authVars, callVars, proc, pool, ctVars, registry,
                   TOPIC_COUNTER>>

\* lines 138-147: listen() raises
Subscribe_Fail(c) ==
    /\ proc = "EventBus" /\ c \in Workers
    /\ call[c].rpc = "Subscribe" /\ call[c].pc = "stream"
    /\ LET k == call[c] IN
       call' = [call EXCEPT ![c] =
                  [k EXCEPT !.pc = "done", !.end = "abort", !.logs = k.logs + 1,
                            !.aborts = k.aborts \o <<"INTERNAL">>]]
    /\ UNCHANGED <<now, authVars, callVars, proc, pool, ctVars, registry,
                   TOPIC_COUNTER>>

----------------------------------------------------------------------------
(* The servers *)

\* the worker is handed back to the pool
Return(c) ==
    /\ c \in Workers /\ call[c].pc = "done"
    /\ call' = [call EXCEPT ![c] = IdleCall]
    /\ UNCHANGED <<now, authVars, callVars, proc, pool, ctVars, registry,
                   TOPIC_COUNTER>>

Tick ==
    /\ proc # "none"
    /\ now + TickSize <= MaxTicks * TickSize
    /\ now' = now + TickSize
    /\ UNCHANGED <<authVars, callVars, svcVars>>

\* another client of the context_entries table writes or deletes the row
BackingStoreWrite ==
    /\ proc = "ContextTool"
    /\ \E key \in ContextKeys :
         \/ \E row \in Rows : db' = (key :> row) @@ db
         \/ db' = [x \in DOMAIN db \ {key} |-> db[x]]
    /\ db' # db
    /\ hist' = [hist EXCEPT !.served = <<>>]
    /\ UNCHANGED <<now, authVars, callVars, proc, pool, call, CIRCUIT, CACHE,
                   registry, TOPIC_COUNTER>>

NoRet == [pending |-> TRUE]

NoDirectCall == fn = "none" /\ args = <<>> /\ ret = NoRet

ServerStarts(p, n) ==
    /\ proc = p
    /\ pool = n
    /\ call = [c \in 1..n |-> IdleCall]
    /\ CIRCUIT = CircuitBreaker(Threshold, RecoveryTime)
    /\ CACHE = <<>>
    /\ db \in {<<>>} \cup {[key \in ContextKeys |-> row] : row \in Rows}
    /\ hist = NoHistory
    /\ registry = <<>>
    /\ TOPIC_COUNTER = <<>>
    /\ now = 0
    /\ jwks_cache = NoJwks
    /\ jwks_last_fetch = 0

Handlers(c) ==
    \/ Register(c) \/ Lookup(c)
    \/ RequestContext_Start(c) \/ RequestContext_Guard(c) \/ RequestContext_Db(c)
    \/ InvokeTool_Start(c) \/ InvokeTool_Guard(c) \/ InvokeTool_Run(c)
    \/ SubscribeTelemetry_Start(c) \/ SubscribeTelemetry_Message(c)
    \/ SubscribeTelemetry_Fail(c)
    \/ MultiModalExchange_Start(c) \/ MultiModalExchange_End(c)
    \/ Publish(c) \/ Publish_Store(c)
    \/ Subscribe_Start(c) \/ Subscribe_Message(c) \/ Subscribe_Fail(c)
    \/ ClientDisconnect(c) \/ Return(c)

(* Spec: one of the three servers, its RPCs handled one at a time.         *)
Init ==
    /\ NoDirectCall
    /\ \E p \in {"Registry", "ContextTool", "EventBus"} : ServerStarts(p, 1)

Next == (\E c \in 1..MaxWorkers : Handlers(c)) \/ Tick \/ BackingStoreWrite

Spec == Init /\ [][Next]_vars

(* SpecPool: the Context/Tool server with MaxWorkers workers sharing the   *)
(* breaker and the cache, handling the two RPCs the breaker guards; the    *)
(* key set was fetched when the first call came in.                        *)
InitPool ==
    /\ NoDirectCall
    /\ proc = "ContextTool"
    /\ pool = MaxWorkers
    /\ call = [c \in 1..MaxWorkers |-> IdleCall]
    /\ CIRCUIT = CircuitBreaker(Threshold, RecoveryTime)
    /\ CACHE = <<>>
    /\ db = [key \in ContextKeys |-> [serialized_value |-> "42", metadata |-> <<"ts">>]]
    /\ hist = NoHistory
    /\ registry = <<>>
    /\ TOPIC_COUNTER = <<>>
    /\ now = 0
    /\ jwks_cache = Jwks(IdpKeys)
    /\ jwks_last_fetch = 0

Guarded(c) ==
    \/ RequestContext_Start(c) \/ RequestContext_Guard(c) \/ RequestContext_Db(c)
    \/ InvokeTool_Start(c) \/ InvokeTool_Guard(c) \/ InvokeTool_Run(c)
    \/ Return(c)

NextPool == (\E c \in 1..MaxWorkers : Guarded(c)) \/ Tick

SpecPool == InitPool /\ [][NextPool]_vars

----------------------------------------------------------------------------
(* The functions of auth.py called directly: the arguments are drawn at    *)
(* the start, one step makes the call and keeps what it returned.          *)

NoServer ==
    /\ proc = "none" /\ pool = 0 /\ call = <<>>
    /\ CIRCUIT = CircuitBreaker(Threshold, RecoveryTime)
    /\ CACHE = <<>> /\ db = <<>> /\ hist = NoHistory
    /\ registry = <<>> /\ TOPIC_COUNTER = <<>>

\* an optional key of a dict: absent, or present with one of vals
Opt(name, vals) == {<<>>} \cup {(name :> x) : x \in vals}

\* every str over Alphabet of length at most n
Alphabet == {"a", "?", "*"}
Strs(n) == UNION {[1..m -> Alphabet] : m \in 0..n}
Lists(n, elems) == UNION {[1..m -> elems] : m \in 0..n}

(* SpecCM: has_capability on every granted list of at most MaxCaps strings *)
(* of at most MaxLen characters, and on a payload with no capabilities.    *)
InitCM ==
    /\ NoServer
    /\ now = 0 /\ jwks_cache = NoJwks /\ jwks_last_fetch = 0
    /\ fn = "has_capability"
    /\ \E payload \in Opt("capabilities", Lists(MaxCaps, Strs(MaxLen))),
          required \in Strs(MaxLen) :
         args = [payload |-> payload, required |-> required]
    /\ ret = NoRet

Call_has_capability ==
    /\ fn = "has_capability" /\ ret = NoRet
    /\ ret' = [value |-> has_capability(args.payload, args.required)]
    /\ UNCHANGED <<now, authVars, fn, args, svcVars>>

SpecCM == InitCM /\ [][Call_has_capability]_vars

(* SpecTV: verify_jwt_token on every token built from the fields below,    *)
(* at every time up to MaxTime, with the key set cached or not and the     *)
(* key endpoint answering or not.                                          *)
Algs == {"RS256", "HS256", "none"}
Headers == {a @@ k : a \in {[alg |-> x] : x \in Algs},
                     k \in Opt("kid", {"k1", "k2"})}
FarFuture == MaxTime + 2
ClaimSets ==
    {i @@ e @@ a @@ d @@ [sub |-> "alice", capabilities |-> <<>>] :
        i \in Opt("iss", {OIDC_ISSUER, "https://evil.example.com"}),
        e \in Opt("exp", 0..MaxTime),
        a \in {[iat |-> 0], [iat |-> FarFuture]},
        d \in Opt("aud", {AudStr(SN_ContextTool), AudStr(SN_EventBus),
                          AudList(<<SN_EventBus, SN_ContextTool>>)})}
TvTokens ==
    {EmptyToken, GarbageToken}
    \cup {Jwt(h, sig, c) : h \in Headers, sig \in {"pub1", "forged"},
                           c \in ClaimSets}

InitTV ==
    /\ NoServer
    /\ now \in 0..MaxTime
    /\ jwks_cache \in {NoJwks, Jwks(IdpKeys)}
    /\ jwks_last_fetch = 0
    /\ fn = "verify_jwt_token"
    /\ \E token \in TvTokens, resp \in {HttpError, HttpOk(IdpKeys)} :
         args = [token |-> token, audience |-> SN_ContextTool, resp |-> resp]
    /\ ret = NoRet

Call_verify_jwt_token ==
    /\ fn = "verify_jwt_token" /\ ret = NoRet
    /\ \E v \in {verify_jwt_token(args.token, args.audience, jwks_cache,
                                  jwks_last_fetch, now, args.resp)} :
         /\ ret' = v
         /\ jwks_cache' = v.cache
         /\ jwks_last_fetch' = v.last
    /\ UNCHANGED <<now, fn, args, svcVars>>

SpecTV == InitTV /\ [][Call_verify_jwt_token]_vars

(* SpecDV: verify_delegation_proof on every delegation token built from    *)
(* the fields below, against every parent payload.                         *)
DvCapLists ==
    { <<>>, << PFX_tool \o <<"*">> >>, << PFX_tool \o compute_pricing >>,
      << PFX_tool \o compute_pricing, PFX_tool \o dangerous >>,
      << PFX_tool \o dangerous >> }
DvTokens ==
    {Jwt([alg |-> "RS256", kid |-> "k1"], sig,
         g @@ d @@ [iss |-> OIDC_ISSUER, sub |-> sub, iat |-> 0,
                    exp |-> NotExpired, capabilities |-> caps]) :
        sig \in {"pub1", "forged"}, sub \in {"alice", "bob"},
        caps \in DvCapLists,
        g \in Opt("delegatee", {SN_ContextTool, SN_EventBus}),
        d \in Opt("aud", {AudStr(SN_ContextTool), AudStr(SN_EventBus)})}
DvParents ==
    {[iss |-> OIDC_ISSUER, sub |-> "alice", aud |-> AudStr(SN_ContextTool),
      iat |-> 0, exp |-> NotExpired, capabilities |-> caps] :
        caps \in DvCapLists}

InitDV ==
    /\ NoServer
    /\ now = 0 /\ jwks_cache = Jwks(IdpKeys) /\ jwks_last_fetch = 0
    /\ fn = "verify_delegation_proof"
    /\ \E delegation_jwt \in DvTokens, original \in DvParents :
         args = [delegation_jwt |-> delegation_jwt,
                 delegatee |-> SN_ContextTool, original |-> original]
    /\ ret = NoRet

Call_verify_delegation_proof ==
    /\ fn = "verify_delegation_proof" /\ ret = NoRet
    /\ \E v \in {verify_delegation_proof(args.delegation_jwt, args.delegatee,
                     args.original, jwks_cache, jwks_last_fetch, now, HttpError)} :
         /\ ret' = v
         /\ jwks_cache' = v.cache
         /\ jwks_last_fetch' = v.last
    /\ UNCHANGED <<now, fn, args, svcVars>>

SpecDV == InitDV /\ [][Call_verify_delegation_proof]_vars

----------------------------------------------------------------------------
(* Properties *)

Calls == {call[c] : c \in DOMAIN call}

(* C1: in every RPC of the three services, a call has a handler effect     *)
(* (registry write or scan, backing-store read, cache read or write,       *)
(* breaker update, sequence-counter increment, broker publish or           *)
(* subscribe, frame echo, tool execution) only if its token passed         *)
(* verification for the service's name and the required capability is      *)
(* granted by the token (for InvokeTool: or by an accepted delegation).    *)
C1_EffectsOnlyWhenAuthorized ==
    \A k \in Calls : k.fx # {} => k.verified /\ k.granted

\* a Publish that incremented the counter and published
C1_Witness ==
    \E k \in Calls : k.rpc = "Publish" /\ "broker_publish" \in k.fx /\ k.granted

(* C2: every InvokeTool call that reaches tool execution has               *)
(* tool:<tool_name> granted under the Capability Matcher by the            *)
(* capabilities of the caller's own token, with or without a delegation    *)
(* proof.                                                                  *)
C2_NoEscalation ==
    \A k \in Calls :
        k.rpc = "InvokeTool" /\ "tool_run" \in k.fx
        => has_capability([capabilities |-> k.parent_caps], PFX_tool \o k.tool)

\* the tool `dangerous` run for a caller whose token holds tool:*
C2_Witness ==
    \E k \in Calls : /\ k.rpc = "InvokeTool" /\ "tool_run" \in k.fx
                     /\ k.tool = dangerous
                     /\ k.parent_caps = << PFX_tool \o <<"*">> >>

\* the clock skew a verifier tolerates on iat
ClockSkew == 1

(* C3: verify(token, expected_audience) returns claims only if the header  *)
(* carries a kid, a key with that kid is in the key set, the signature     *)
(* verifies under RS256, iss equals the configured issuer, exp > now,      *)
(* iat <= now + skew and expected_audience appears in aud; in particular   *)
(* it returns no claims for a token with exp <= now.                       *)
C3_VerifyReturnsOnlyIf ==
    fn = "verify_jwt_token" /\ ret # NoRet /\ ret.ok
    => /\ args.token.raw = "jwt"
       /\ "kid" \in DOMAIN args.token.header
       /\ \E i \in 1..Len(IdpKeys) :
            /\ IdpKeys[i].kid = args.token.header.kid
            /\ args.token.sig = IdpKeys[i].key
       /\ args.token.header.alg = "RS256"
       /\ Get(args.token.claims, "iss", None) = OIDC_ISSUER
       /\ "exp" \in DOMAIN args.token.claims
       /\ args.token.claims.exp > now
       /\ "iat" \in DOMAIN args.token.claims
       /\ args.token.claims.iat <= now + ClockSkew
       /\ "aud" \in DOMAIN args.token.claims
       /\ args.audience \in ToSet(args.token.claims.aud.v)

\* the Capability Matcher as a relation between a granted list and a capability
Matches(G, R) ==
    \E i \in 1..Len(G) :
        \/ G[i] = R
        \/ \E n \in 0..Len(R) : G[i] = SubSeq(R, 1, n) \o <<"*">>

(* C4: for every granted list G and required capability R, the matcher     *)
(* answers true if and only if some g in G equals R, or some g in G ends   *)
(* with * and R starts with g without its final *; a * elsewhere and a ?   *)
(* grant nothing, and a bare * grants every R.                             *)
C4_MatcherIff ==
    fn = "has_capability" /\ ret # NoRet
    => (ret.value <=> Matches(Get(args.payload, "capabilities", <<>>),
                              args.required))

\* granted by a trailing * alone, and refused where only a ? or an inner * fits
C4_Witness ==
    /\ fn = "has_capability" /\ ret # NoRet /\ ret.value
    /\ args.required = <<"a", "?", "a">>
    /\ Get(args.payload, "capabilities", <<>>) = << <<"*", "a">>, <<"a", "*">> >>

\* every delegated capability is matched by the parent's list
Covered(del_caps, orig_caps) ==
    \A i \in 1..Len(del_caps) : Matches(orig_caps, del_caps[i])

\* the delegation passes token verification, continuity and the delegatee check
DvAdmissible ==
    /\ verify_jwt_token(args.delegation_jwt, args.delegatee, jwks_cache,
                        jwks_last_fetch, now, HttpError).ok
    /\ Get(args.delegation_jwt.claims, "iss", None) = Get(args.original, "iss", None)
    /\ Get(args.delegation_jwt.claims, "sub", None) = Get(args.original, "sub", None)
    /\ Get(args.delegation_jwt.claims, "delegatee", <<>>) = args.delegatee

(* C5: a delegation that passes token verification, issuer/subject         *)
(* continuity and the delegatee check is accepted if and only if every     *)
(* capability it carries is present in the parent's capabilities or        *)
(* covered by a trailing-* entry of them; parent [tool:*] with delegation  *)
(* [tool:compute_pricing] is accepted.                                     *)
C5_SubsetByMatcher ==
    fn = "verify_delegation_proof" /\ ret # NoRet /\ DvAdmissible
    => (ret.ok <=> Covered(Get(args.delegation_jwt.claims, "capabilities", <<>>),
                           Get(args.original, "capabilities", <<>>)))

(* C6: whenever a delegation D is accepted for parent claims P and server  *)
(* name S: D.iss = P.iss, D.sub = P.sub, D.delegatee = S, S is in D.aud,   *)
(* and every capability of D is matched by P's capabilities.               *)
C6_AcceptedDelegation ==
    fn = "verify_delegation_proof" /\ ret # NoRet /\ ret.ok
    => /\ Get(ret.payload, "iss", None) = Get(args.original, "iss", None)
       /\ Get(ret.payload, "sub", None) = Get(args.original, "sub", None)
       /\ Get(ret.payload, "delegatee", <<>>) = args.delegatee
       /\ "aud" \in DOMAIN ret.payload
       /\ args.delegatee \in ToSet(ret.payload.aud.v)
       /\ Covered(Get(ret.payload, "capabilities", <<>>),
                  Get(args.original, "capabilities", <<>>))

(* C7: a call whose token passes verification but whose capabilities do    *)
(* not grant the required capability (for InvokeTool: with no delegation   *)
(* proof, or an accepted one that lacks the capability) ends with the      *)
(* final status PermissionDenied, not Unauthenticated, in all eight RPCs.  *)
C7_DeniedIsPermissionDenied ==
    \A k \in Calls :
        /\ k.pc = "done" /\ k.verified /\ ~k.granted
        /\ k.proof \in {"none", "accepted"}
        => Status(k) = "PERMISSION_DENIED"

(* C8: every RPC call emits exactly one telemetry record, never zero and   *)
(* never two, on every path.                                               *)
C8_OneRecordPerCall ==
    \A k \in Calls : k.pc = "done" => k.logs = 1

\* the call of worker c goes through the breaker's guard in this step
AtGuard(c) == call[c].pc = "guard" /\ call'[c].pc # "guard"

(* C9: starting from a closed breaker, after Threshold consecutive         *)
(* recorded failures, every authorized RequestContext or InvokeTool call   *)
(* that arrives while now - last_failure_time <= RecoveryTime is rejected  *)
(* with Unavailable and performs no cache lookup, no backing-store read    *)
(* and no tool execution.                                                  *)
C9_RejectedInWindow ==
    [][\A c \in DOMAIN call :
         /\ AtGuard(c)
         /\ hist.tripped
         /\ now - CIRCUIT.last_failure_time <= RecoveryTime
         => /\ Status(call'[c]) = "UNAVAILABLE"
            /\ call'[c].fx = {}]_vars

\* worker d was admitted while the breaker was open and has recorded nothing
ProbeInFlight(d) == call[d].probe /\ call[d].pc \in {"db", "tool"}

(* C10: once the breaker is open and the recovery window has elapsed,      *)
(* exactly one call is admitted as a probe: until an outcome is recorded   *)
(* for that probe, every other call that reaches the guard is rejected     *)
(* with Unavailable.                                                       *)
C10_SingleProbe ==
    [][\A c, d \in DOMAIN call :
         c # d /\ AtGuard(c) /\ ProbeInFlight(d)
         => Status(call'[c]) = "UNAVAILABLE"]_vars

\* the call of worker c records a success with the breaker in this step
RecordsSuccess(c) ==
    /\ call[c].pc \in {"db", "tool"}
    /\ call'[c].pc = "done" /\ call'[c].end = "return"

(* C11: the breaker goes from open to closed only in a step in which a     *)
(* call that before_call admitted after the recovery window had elapsed    *)
(* (a probe) records success; a success recorded by a call admitted while  *)
(* the breaker was closed never closes an open breaker.                    *)
C11_ClosedOnlyByProbe ==
    [][CIRCUIT.open /\ ~CIRCUIT'.open
         => \E c \in DOMAIN call : RecordsSuccess(c) /\ call[c].probe]_vars

----------------------------------------------------------------------------
(* SpecKR: verify_jwt_token after a key rotation.  The process cached the  *)
(* key set IdpKeys at time 0; the identity provider has since added the    *)
(* key k2 and serves RotatedKeys; tokens are signed with either key.       *)
RotatedKeys == IdpKeys \o <<[kid |-> "k2", key |-> "pub2"]>>

KrTokens ==
    {Jwt(h, sig, c) : h \in Headers, sig \in {"pub1", "pub2"}, c \in ClaimSets}

InitKR ==
    /\ NoServer
    /\ now \in 0..MaxTime
    /\ jwks_cache = Jwks(IdpKeys)
    /\ jwks_last_fetch = 0
    /\ fn = "verify_jwt_token"
    /\ \E token \in KrTokens, resp \in {HttpError, HttpOk(RotatedKeys)} :
         args = [token |-> token, audience |-> SN_ContextTool, resp |-> resp]
    /\ ret = NoRet

SpecKR == InitKR /\ [][Call_verify_jwt_token]_vars

\* the token names a key that the cached, unexpired key set does not hold
UnknownKid ==
    /\ fn = "verify_jwt_token" /\ ret = NoRet
    /\ "kid" \in DOMAIN args.token.header
    /\ jwks_cache.present /\ ~(now - jwks_last_fetch > JWKS_TTL_SECONDS)
    /\ find_jwk(jwks_cache.keys, args.token.header.kid, 1) = 0

(* C12: when the token's kid is not in the cached, unexpired key set, the  *)
(* verifier performs exactly one new fetch and looks the kid up in the     *)
(* fresh set: it fails for an unknown kid only if the fresh set lacks the  *)
(* kid, and a token signed with a newly rotated key that the endpoint      *)
(* serves is accepted without waiting for the TTL.                         *)
C12_RefetchOnUnknownKid ==
    [][UnknownKid
         => /\ ret'.fetches = 1
            /\ args.resp.ok => jwks_cache' = Jwks(args.resp.keys)
            /\ \A j \in 1..Len(args.resp.keys) :
                 /\ args.resp.ok
                 /\ args.resp.keys[j].kid = args.token.header.kid
                 /\ jose_decode(args.token, args.resp.keys[j], args.audience,
                                OIDC_ISSUER, now)
                 => ret'.ok]_vars

----------------------------------------------------------------------------
(* SpecFJ: _fetch_jwks() called with nothing cached (the timestamp is then *)
(* still 0) or with a key set cached at some time up to MaxTime, at times  *)
(* shortly after the caching and around the end of the TTL.                *)
Ages == (0..MaxTime) \cup ((JWKS_TTL_SECONDS - 1)..(JWKS_TTL_SECONDS + 1))

InitFJ ==
    /\ NoServer
    /\ \/ jwks_cache = NoJwks /\ jwks_last_fetch = 0
       \/ jwks_cache = Jwks(IdpKeys) /\ jwks_last_fetch \in 0..MaxTime
    /\ now \in {jwks_last_fetch + a : a \in Ages}
    /\ fn = "_fetch_jwks"
    /\ \E resp \in {HttpError, HttpOk(IdpKeys), HttpOk(RotatedKeys)} :
         args = [resp |-> resp]
    /\ ret = NoRet

Call_fetch_jwks ==
    /\ fn = "_fetch_jwks" /\ ret = NoRet
    /\ \E f \in {fetch_jwks(jwks_cache, jwks_last_fetch, now, args.resp)} :
         /\ ret' = f
         /\ jwks_cache' = f.cache
         /\ jwks_last_fetch' = f.last
    /\ UNCHANGED <<now, fn, args, svcVars>>

SpecFJ == InitFJ /\ [][Call_fetch_jwks]_vars

(* C13: a key-set lookup goes to the endpoint if and only if no key set is *)
(* cached or now - last_fetch > 3600 s; otherwise it returns the cached    *)
(* set and leaves the cache alone; after a successful fetch the cache      *)
(* holds the fetched set, which is returned, and last_fetch is the time    *)
(* of this lookup.                                                         *)
C13_FetchIffStale ==
    [][fn = "_fetch_jwks" /\ ret = NoRet
         => /\ ret'.fetched <=> (~jwks_cache.present
                                 \/ now - jwks_last_fetch > 3600)
            /\ ~ret'.fetched
                 => /\ ~ret'.raised /\ ret'.jwks = jwks_cache
                    /\ UNCHANGED authVars
            /\ ret'.fetched /\ args.resp.ok
                 => /\ ~ret'.raised /\ ret'.jwks = Jwks(args.resp.keys)
                    /\ jwks_cache' = Jwks(args.resp.keys)
                    /\ jwks_last_fetch' = now]_vars

\* a key set older than the TTL was replaced by the one the endpoint serves
C13_Witness ==
    /\ fn = "_fetch_jwks" /\ ret # NoRet
    /\ ret.fetched /\ ~ret.raised
    /\ jwks_cache = Jwks(RotatedKeys)
    /\ jwks_last_fetch = now /\ now > JWKS_TTL_SECONDS

----------------------------------------------------------------------------
(* SpecSF: the workers of one server inside _fetch_jwks() at the same      *)
(* time.  requests.get blocks on the network with the interpreter lock     *)
(* released, so other workers run between the test of line 26 and the      *)
(* assignments of lines 29-30; nothing in auth.py serialises them.         *)

\* lines 25-27 and 31: read the clock, test the cache, start the request
fetch_jwks_Check(c) ==
    /\ c \in Workers /\ call[c].pc = "idle"
    /\ IF ~jwks_cache.present \/ now - jwks_last_fetch > JWKS_TTL_SECONDS
       THEN call' = [call EXCEPT ![c] =
              [IdleCall EXCEPT !.rpc = "_fetch_jwks", !.pc = "request",
                               !.t0 = now, !.fx = {"http_get"}]]
       ELSE call' = [call EXCEPT ![c] =
              [IdleCall EXCEPT !.rpc = "_fetch_jwks", !.pc = "done",
                               !.t0 = now, !.end = "return",
                               !.out = jwks_cache.keys]]
    /\ UNCHANGED <<now, authVars, callVars, proc, pool, ctVars, registry,
                   TOPIC_COUNTER>>

\* lines 27-31: the answer arrives; raise_for_status, store, return
fetch_jwks_Reply(c) ==
    /\ c \in Workers
    /\ call[c].rpc = "_fetch_jwks" /\ call[c].pc = "request"
    /\ \E resp \in {HttpError, HttpOk(IdpKeys), HttpOk(RotatedKeys)} :
         IF resp.ok
         THEN /\ jwks_cache' = Jwks(resp.keys)
              /\ jwks_last_fetch' = call[c].t0
              /\ call' = [call EXCEPT ![c].pc = "done", ![c].end = "return",
                                      ![c].out = resp.keys]
         ELSE /\ call' = [call EXCEPT ![c].pc = "done", ![c].end = "raise"]
              /\ UNCHANGED authVars
    /\ UNCHANGED <<now, callVars, proc, pool, ctVars, registry, TOPIC_COUNTER>>

InitSF ==
    /\ NoDirectCall
    /\ ServerStarts("ContextTool", MaxWorkers)

NextSF ==
    \/ \E c \in 1..MaxWorkers :
         fetch_jwks_Check(c) \/ fetch_jwks_Reply(c) \/ Return(c)
    \/ Tick

SpecSF == InitSF /\ [][NextSF]_vars

\* the workers whose request to the key endpoint is in flight
InFlight == {c \in DOMAIN call : call[c].pc = "request"}

(* C14: key-set fetches are single-flight: at any moment at most one       *)
(* request to the key endpoint is in flight.                               *)
C14_SingleFlight == Cardinality(InFlight) <= 1

----------------------------------------------------------------------------
(* SpecSC: the SimpleCache of the Context/Tool server driven by its two    *)
(* methods while the clock advances.  For each key, args keeps the time    *)
(* and the ttl of the last set(key, value, ttl); ret is the last get.      *)
ScKeys ==
    {cache_key(key, sorted_items(parameters)) :
        key \in ContextKeys, parameters \in Parameters}

InitSC ==
    /\ ServerStarts("ContextTool", 1)
    /\ fn = "SimpleCache" /\ args = <<>> /\ ret = NoRet

Call_cache_set ==
    /\ fn = "SimpleCache"
    /\ \E key \in ScKeys, value \in Rows, ttl \in {TickSize, 60} :
         /\ CACHE' = cache_set(CACHE, key, value, ttl)
         /\ args' = (key :> [at |-> now, ttl |-> ttl]) @@ args
    /\ ret' = NoRet
    /\ UNCHANGED <<now, authVars, fn, proc, pool, call, CIRCUIT, db, hist,
                   registry, TOPIC_COUNTER>>

Call_cache_get ==
    /\ fn = "SimpleCache"
    /\ \E key \in ScKeys :
         ret' = [key |-> key, at |-> now, value |-> cache_get(CACHE, key)]
    /\ UNCHANGED <<now, authVars, fn, args, svcVars>>

NextSC == Call_cache_set \/ Call_cache_get \/ Tick

SpecSC == InitSC /\ [][NextSC]_vars

(* C15: a cache lookup made later than insert_time + ttl is a miss and     *)
(* the entry is gone from the cache; so a response cached with ttl = 60    *)
(* is no longer served more than 60 s after it was cached.                 *)
C15_ExpiredIsMiss ==
    /\ ret # NoRet
    /\ ret.key \in DOMAIN args
    /\ ret.at > args[ret.key].at + args[ret.key].ttl
    => /\ ret.value = NoResp
       /\ ret.key \notin DOMAIN CACHE

----------------------------------------------------------------------------
\* the RequestContext call k returned a response taken from the cache
FromCache(k) ==
    /\ k.rpc = "RequestContext" /\ k.pc = "done" /\ k.end = "return"
    /\ "cache_read" \in k.fx /\ "db_read" \notin k.fx

(* C16: a cached RequestContext response is returned only in a call whose  *)
(* token passed verification, the db:inventory:read capability check and   *)
(* the audience check; the entry is found under a key made of context_key  *)
(* and parameters only, so calls of different subjects with the same       *)
(* context_key and parameters get the response of the same entry.          *)
C16_CacheBehindGate ==
    /\ \A k \in Calls :
         k.rpc = "RequestContext" /\ "cache_read" \in k.fx
         => k.verified /\ k.granted /\ k.named
    /\ \A k \in Calls :
         FromCache(k) => k.out = <<CACHE[cache_key(k.key, k.items)]>>
    /\ \A k1, k2 \in Calls :
         /\ FromCache(k1) /\ FromCache(k2)
         /\ k1.key = k2.key /\ k1.items = k2.items
         => k1.out = k2.out

\* bob is served the entry that alice's call wrote
C16_Witness ==
    \E k1, k2 \in Calls :
      /\ k1.rpc = "RequestContext" /\ k1.sub = "alice" /\ k1.pc = "done"
      /\ "cache_write" \in k1.fx
      /\ FromCache(k2) /\ k2.sub = "bob"
      /\ k2.key = k1.key /\ k2.items = k1.items /\ k2.out = k1.out

----------------------------------------------------------------------------
\* the RequestContext call of worker c returns a response in this step
Responds(c) ==
    /\ call[c].rpc = "RequestContext" /\ call[c].pc \in {"guard", "db"}
    /\ call'[c].pc = "done" /\ call'[c].end = "return"

(* C17: of two successive authorized RequestContext calls with the same    *)
(* context_key and the same parameters, in whatever order the parameters   *)
(* were inserted, with no change of the backing store between them, the    *)
(* second returns the response the first returned, be it served from the   *)
(* cache or from the store.                                                *)
C17_CacheIdempotent ==
    [][\A c \in DOMAIN call :
         Responds(c) /\ Request(call[c]) \in DOMAIN hist.served
         => call'[c].out = <<hist.served[Request(call[c])]>>]_vars

\* the second of two such calls was served from the cache
C17_Witness ==
    \E k \in Calls :
      /\ FromCache(k) /\ k.again
      /\ k.out = <<hist.served[Request(k)]>>

----------------------------------------------------------------------------
\* the Publish call of worker c passes the checks in this step
PublishAdmitted(c) ==
    call[c].pc = "idle" /\ call'[c].rpc = "Publish" /\ call'[c].pc = "store"

\* the Publish call of worker c writes the counter in this step
PublishStores(c) ==
    call[c].rpc = "Publish" /\ call[c].pc = "store" /\ call'[c].pc = "done"

(* C18: with publishes handled one at a time, the k-th Publish to a topic  *)
(* that passes the checks since the process started takes sequence_id k    *)
(* (the first takes 1), whatever publishes to other topics come between,   *)
(* and leaves the counter of every other topic as it was.                  *)
C18_PerTopicSequence ==
    [][\A c \in DOMAIN call :
         /\ PublishAdmitted(c)
              => call'[c].seq = Get(hist.published, call'[c].tool, 0) + 1
         /\ PublishStores(c)
              => /\ TOPIC_COUNTER'[call[c].tool] = call[c].seq
                 /\ \A topic \in Topics \ {call[c].tool} :
                      Get(TOPIC_COUNTER', topic, 0) = Get(TOPIC_COUNTER, topic, 0)
        ]_vars

\* both topics have had publishes, and the second one to a topic took 2
C18_Witness ==
    /\ \A topic \in Topics : Get(TOPIC_COUNTER, topic, 0) >= 1
    /\ \E k \in Calls :
         /\ k.rpc = "Publish" /\ k.pc = "done" /\ k.seq = 2
         /\ hist.published[k.tool] = 2
         /\ TOPIC_COUNTER[k.tool] = 2

----------------------------------------------------------------------------
(* SpecBus: the event bus with MaxWorkers workers in Publish at the same   *)
(* time, the key set already cached.                                       *)
InitBus ==
    /\ NoDirectCall
    /\ proc = "EventBus" /\ pool = MaxWorkers
    /\ call = [c \in 1..MaxWorkers |-> IdleCall]
    /\ CIRCUIT = CircuitBreaker(Threshold, RecoveryTime)
    /\ CACHE = <<>> /\ db = <<>> /\ hist = NoHistory
    /\ registry = <<>> /\ TOPIC_COUNTER = <<>>
    /\ now = 0
    /\ jwks_cache = Jwks(IdpKeys) /\ jwks_last_fetch = 0

NextBus ==
    \E c \in 1..MaxWorkers : Publish(c) \/ Publish_Store(c) \/ Return(c)

SpecBus == InitBus /\ [][NextBus]_vars

\* the call k passed the checks of Publish and read the counter of its topic
TookSeq(k) == k.rpc = "Publish" /\ k.pc \in {"store", "done"} /\ k.seq > 0

(* C19: however concurrent Publish calls to one topic interleave, the read *)
(* and the write of the topic's counter act as one step: no two calls take *)
(* the same sequence_id for the same topic.                                *)
C19_DistinctSequenceIds ==
    \A c, d \in DOMAIN call :
      /\ c # d
      /\ TookSeq(call[c]) /\ TookSeq(call[d])
      /\ call[c].tool = call[d].tool
      => call[c].seq # call[d].seq

----------------------------------------------------------------------------
(* SpecLK: lookup_in_redis on a registry of at most two servers.  Server A *)
(* advertises any list of at most MaxCaps capabilities, server B is absent *)
(* or advertises one wildcard or one literal; the filters are any list of  *)
(* at most MaxCaps strings, scan_iter yields the keys in any order.        *)
LkCaps == { <<"a">>, <<"a","*">>, <<"a","?">>, <<"*">> }

LkStores ==
    { a @@ b :
        a \in {<<>>} \cup
              { register_in_redis(<<>>, <<"A">>, "url-a", caps, 0) :
                  caps \in Lists(MaxCaps, LkCaps) },
        b \in {<<>>} \cup
              { register_in_redis(<<>>, <<"B">>, "url-b", caps, 0) :
                  caps \in { << <<"a","*">> >>, << <<"a","?">> >> } } }

InitLK ==
    /\ NoServer
    /\ now = 0 /\ jwks_cache = NoJwks /\ jwks_last_fetch = 0
    /\ fn = "lookup_in_redis"
    /\ \E store \in LkStores, cap_filters \in Lists(MaxCaps, LkCaps) :
       \E order \in ScanOrders(store) :
         args = [store |-> store, cap_filters |-> cap_filters, order |-> order]
    /\ ret = NoRet

Call_lookup_in_redis ==
    /\ fn = "lookup_in_redis" /\ ret = NoRet
    /\ ret' = [out |-> lookup_in_redis(args.store, args.cap_filters,
                                       args.order, 1)]
    /\ UNCHANGED <<now, authVars, fn, args, svcVars>>

SpecLK == InitLK /\ [][Call_lookup_in_redis]_vars

\* the positions of the record of server in the list out
Returned(out, server) == {n \in 1..Len(out) : out[n].server_name = server}

(* C20: lookup(cap_filters) returns the record of a registered server if   *)
(* and only if at least one stored capability matches at least one filter, *)
(* by equality or with the stored capability as a suffix wildcard over the *)
(* filter; the record is returned once, with the stored url and            *)
(* capabilities, and an empty filter list returns nothing.                 *)
C20_LookupIff ==
    fn = "lookup_in_redis" /\ ret # NoRet
    => /\ \A server \in DOMAIN args.store :
            /\ Returned(ret.out, server) # {}
               <=> \E i \in 1..Len(args.cap_filters) :
                     Matches(args.store[server].capabilities, args.cap_filters[i])
            /\ Cardinality(Returned(ret.out, server)) <= 1
            /\ \A n \in Returned(ret.out, server) :
                 /\ ret.out[n].grpc_url = args.store[server].grpc_url
                 /\ ret.out[n].capabilities = args.store[server].capabilities
       /\ \A n \in 1..Len(ret.out) : ret.out[n].server_name \in DOMAIN args.store
       /\ args.cap_filters = <<>> => ret.out = <<>>

\* of two servers, one is returned, through a wildcard it advertises, and
\* the other, whose literal the filter's wildcard would cover, is not
C20_Witness ==
    /\ fn = "lookup_in_redis" /\ ret # NoRet
    /\ Cardinality(DOMAIN args.store) = 2
    /\ args.cap_filters = << <<"a","*">> >>
    /\ args.store[<<"A">>].capabilities = << <<"*">> >>
    /\ args.store[<<"B">>].capabilities = << <<"a","?">> >>
    /\ Len(ret.out) = 1 /\ ret.out[1].server_name = <<"A">>

----------------------------------------------------------------------------
\* a Lookup that returned its endpoints
LookedUp(k) == k.rpc = "Lookup" /\ k.pc = "done" /\ k.end = "return"

(* C21: Lookup never returns an endpoint whose server_name the caller's    *)
(* aud claim does not name, exactly or through an entry ending in * whose  *)
(* prefix the name starts with.                                            *)
C21_OnlyNamedEndpoints ==
    \A k \in Calls :
      LookedUp(k)
      => \A n \in 1..Len(k.out) : Matches(k.aud, k.out[n].server_name)

\* A and B both match the filter, aud names A only, and A alone is returned
C21_Witness ==
    \E k \in Calls :
      /\ LookedUp(k)
      /\ k.filter # <<>>
      /\ DOMAIN registry = ServerNames
      /\ \A name \in ServerNames :
           entry_appended(registry[name].capabilities, k.filter, 1)
      /\ Matches(k.aud, <<"A">>) /\ ~Matches(k.aud, <<"B">>)
      /\ Len(k.out) = 1 /\ k.out[1].server_name = <<"A">>

----------------------------------------------------------------------------
----------------------------------------------------------------------------
(* SpecRT: the registry written by register_in_redis and read by the body  *)
(* of Lookup (lines 120-129: lookup_in_redis, then the audience filter),   *)
(* called one after the other in any order, for the two server names, two  *)
(* urls, the capability lists of Advertised and the filters of Filters.    *)
Urls == {"127.0.0.1:50051", "127.0.0.1:50052"}
Auds == { <<SN_Registry>>, <<SN_Registry, <<"A">> >>,
          <<SN_Registry, <<"B","*">> >> }

InitRT ==
    /\ NoServer
    /\ now = 0 /\ jwks_cache = NoJwks /\ jwks_last_fetch = 0
    /\ fn = "registry" /\ args = <<>> /\ ret = NoRet

Call_register_in_redis ==
    /\ fn = "registry"
    /\ \E server_name \in ServerNames, grpc_url \in Urls,
          capabilities \in Advertised :
         /\ registry' = register_in_redis(registry, server_name, grpc_url,
                                          capabilities, now)
         /\ hist' = Registered(hist, server_name, grpc_url, capabilities)
    /\ ret' = NoRet
    /\ UNCHANGED <<now, authVars, fn, args, proc, pool, call, CIRCUIT, CACHE,
                   db, TOPIC_COUNTER>>

Call_Lookup_endpoints ==
    /\ fn = "registry"
    /\ \E aud \in Auds, capability_filter \in Filters,
          order \in ScanOrders(registry) :
         ret' = [aud |-> aud, filter |-> capability_filter,
                 out |-> by_audience(Claims(AudList(aud), "alice",
                                            <<CAP_registry_lookup>>),
                                     lookup_in_redis(registry, capability_filter,
                                                     order, 1), 1)]
    /\ UNCHANGED <<now, authVars, fn, args, svcVars>>

NextRT == Call_register_in_redis \/ Call_Lookup_endpoints

SpecRT == InitRT /\ [][NextRT]_vars

\* the caller of the lookup r may see server N, and a filter of r matches
\* a capability that N registered last
Sought(r, N) ==
    /\ Matches(r.aud, N)
    /\ \E i \in 1..Len(r.filter) :
         Matches(hist.registered[N].capabilities, r.filter[i])

----------------------------------------------------------------------------
\* a Register whose token was valid and granted registry:register, and
\* whose call metadata held no grpc-url
NoGrpcUrl(k) ==
    /\ k.rpc = "Register" /\ k.pc = "done"
    /\ k.verified /\ k.granted
    /\ k.aborts # <<>> /\ k.aborts[1] = "INVALID_ARGUMENT"

(* C24: a Register call with a valid token granting registry:register but  *)
(* without grpc-url in its metadata ends with the status InvalidArgument   *)
(* and writes no record to the registry.                                   *)
C24_MissingUrlIsInvalidArgument ==
    \A k \in Calls :
      NoGrpcUrl(k)
      => Status(k) = "INVALID_ARGUMENT" /\ "registry_write" \notin k.fx

----------------------------------------------------------------------------
(* SpecStream: the two streaming RPCs, SubscribeTelemetry of the           *)
(* Context/Tool server and Subscribe of the event bus, with MaxWorkers     *)
(* streams at a time.  A                                                   *)
(* turn of `for message in pubsub.listen()` is taken when the broker       *)
(* delivers a message or the connection to it fails: that is up to the     *)
(* publishers and the broker, so no fairness is assumed for it; what the   *)
(* server does by itself, handing a finished worker back, does happen.     *)
InitStream ==
    /\ NoDirectCall
    /\ \E p \in {"ContextTool", "EventBus"} : ServerStarts(p, MaxWorkers)

Streaming(c) ==
    \/ SubscribeTelemetry_Start(c) \/ SubscribeTelemetry_Message(c)
    \/ SubscribeTelemetry_Fail(c)
    \/ Subscribe_Start(c) \/ Subscribe_Message(c) \/ Subscribe_Fail(c)
    \/ ClientDisconnect(c) \/ Return(c)

NextStream == \E c \in 1..MaxWorkers : Streaming(c)

SpecStream ==
    /\ InitStream /\ [][NextStream]_vars
    /\ \A c \in 1..MaxWorkers : WF_vars(Return(c))

\* worker c is inside the listen loop of a streaming RPC
InStream(c) == c \in DOMAIN call /\ call[c].pc = "stream"

(* C25: in SubscribeTelemetry and Subscribe, whenever the caller           *)
(* disconnects, the handler eventually leaves its loop, releasing the      *)
(* broker subscription and its worker.                                     *)
C25_DisconnectReleases ==
    \A c \in 1..MaxWorkers :
      (InStream(c) /\ ~call[c].active) ~> ~InStream(c)

----------------------------------------------------------------------------
(* C26: the status message of a failed call is a fixed text that does not  *)
(* depend on the internal exception: no exception text reaches the caller, *)
(* so two calls failing at the same stage get the same message.            *)
C26_RedactedStatusMessage ==
    \A k \in Calls : k.pc = "done" /\ k.aborts # <<>> => k.shown = ""

----------------------------------------------------------------------------
(* SpecCB: the worker threads of the Context/Tool server in the methods of *)
(* the one CIRCUIT object, statement by statement.  CircuitBreaker holds   *)
(* no lock and the handlers take none around their calls, so a thread      *)
(* switch can fall between any two statements, and between the load and    *)
(* the store of `self.failure_count += 1`.  The pc of a thread names the   *)
(* line of middleware.py it executes next.                                 *)
InitCB ==
    /\ NoDirectCall
    /\ proc = "ContextTool"
    /\ pool = MaxWorkers
    /\ call = [c \in 1..MaxWorkers |-> IdleCall]
    /\ CIRCUIT = CircuitBreaker(Threshold, RecoveryTime)
    /\ CACHE = <<>> /\ db = <<>> /\ hist = NoHistory
    /\ registry = <<>> /\ TOPIC_COUNTER = <<>>
    /\ now = 0
    /\ jwks_cache = Jwks(IdpKeys)
    /\ jwks_last_fetch = 0

\* before_call, lines 43-47: `if self.open:`, then the comparison of line 44
CB_before_call(c) ==
    /\ c \in Workers
    /\ \/ /\ call[c].pc = "idle"
          /\ call' = [call EXCEPT ![c].pc =
                         IF CIRCUIT.open THEN "l44" ELSE "admitted"]
       \/ /\ call[c].pc = "l44"
          /\ call' = [call EXCEPT ![c] =
                IF now - CIRCUIT.last_failure_time > CIRCUIT.recovery_time
                THEN [call[c] EXCEPT !.pc = "admitted", !.probe = TRUE]
                ELSE [call[c] EXCEPT !.pc = "done", !.end = "abort",
                                     !.aborts = <<"UNAVAILABLE">>]]
    /\ UNCHANGED <<now, authVars, callVars, proc, pool, ctVars, registry,
                   TOPIC_COUNTER>>

(* the guarded work of an admitted call ends and the handler calls         *)
(* CIRCUIT.after_call(success=True) or, from its except block,             *)
(* CIRCUIT.after_call(success=False)                                       *)
CB_Outcome(c) ==
    /\ c \in Workers /\ call[c].pc = "admitted"
    /\ \E success \in BOOLEAN :
         /\ ~success => CIRCUIT.failure_count < MaxFailures
         /\ call' = [call EXCEPT ![c].pc = IF success THEN "l51" ELSE "l54"]
    /\ UNCHANGED <<now, authVars, callVars, proc, pool, ctVars, registry,
                   TOPIC_COUNTER>>

\* after_call, lines 50-52
CB_after_call_success(c) ==
    /\ c \in Workers
    /\ \/ /\ call[c].pc = "l51"
          /\ CIRCUIT' = [CIRCUIT EXCEPT !.failure_count = 0]
          /\ call' = [call EXCEPT ![c].pc = "l52"]
       \/ /\ call[c].pc = "l52"
          /\ CIRCUIT' = [CIRCUIT EXCEPT !.open = FALSE]
          /\ call' = [call EXCEPT ![c].pc = "done", ![c].end = "return"]
    /\ UNCHANGED <<now, authVars, callVars, proc, pool, CACHE, db, hist,
                   registry, TOPIC_COUNTER>>

\* after_call, lines 53-57
CB_after_call_failure(c) ==
    /\ c \in Workers
    /\ \/ /\ call[c].pc = "l54"
          /\ call' = [call EXCEPT ![c].pc = "l54_store",
                                  ![c].count = CIRCUIT.failure_count]
          /\ UNCHANGED CIRCUIT
       \/ /\ call[c].pc = "l54_store"
          /\ CIRCUIT' = [CIRCUIT EXCEPT !.failure_count = call[c].count + 1]
          /\ call' = [call EXCEPT ![c].pc = "l55", ![c].count = 0]
       \/ /\ call[c].pc = "l55"
          /\ CIRCUIT' = [CIRCUIT EXCEPT !.last_failure_time = now]
          /\ call' = [call EXCEPT ![c].pc = "l56"]
       \/ /\ call[c].pc = "l56"
          /\ call' = [call EXCEPT ![c] =
                IF CIRCUIT.failure_count >= CIRCUIT.threshold
                THEN [call[c] EXCEPT !.pc = "l57"]
                ELSE [call[c] EXCEPT !.pc = "done", !.end = "abort",
                                     !.aborts = <<"INTERNAL">>]]
          /\ UNCHANGED CIRCUIT
       \/ /\ call[c].pc = "l57"
          /\ CIRCUIT' = [CIRCUIT EXCEPT !.open = TRUE]
          /\ call' = [call EXCEPT ![c].pc = "done", ![c].end = "abort",
                                  ![c].aborts = <<"INTERNAL">>]
    /\ UNCHANGED <<now, authVars, callVars, proc, pool, CACHE, db, hist,
                   registry, TOPIC_COUNTER>>

NextCB ==
    \/ \E c \in 1..MaxWorkers :
          \/ CB_before_call(c)
          \/ CB_Outcome(c)
          \/ CB_after_call_success(c)
          \/ CB_after_call_failure(c)
          \/ Return(c)
    \/ Tick

SpecCB == InitCB /\ [][NextCB]_vars

(* C27: under every interleaving of the statements of before_call and      *)
(* after_call run by concurrent calls, an open breaker has failure_count   *)
(* at or above the threshold and a last_failure_time; it is never open     *)
(* with failure_count = 0.                                                 *)
C27_OpenImpliesCounted ==
    CIRCUIT.open => /\ CIRCUIT.failure_count >= CIRCUIT.threshold
                    /\ CIRCUIT.last_failure_time # NoTime

----------------------------------------------------------------------------
(* SpecBR: one CircuitBreaker object used by a single thread the way the   *)
(* handlers use CIRCUIT: before_call(), and after_call(success) when the   *)
(* call was admitted.  ret keeps what the last before_call returned, the   *)
(* time of the call and whether the breaker was open; args keeps the last  *)
(* after_call: its argument, its time, the breaker before it and whether   *)
(* it ended a probe (a call admitted while the breaker was open).          *)
NoAfterCall ==
    [success |-> FALSE, probe |-> FALSE, at |-> NoTime,
     b |-> CircuitBreaker(Threshold, RecoveryTime)]

InitBR ==
    /\ proc = "ContextTool" /\ pool = 0 /\ call = <<>>
    /\ \E recovery_time \in {TickSize, RecoveryTime} :
         CIRCUIT = CircuitBreaker(Threshold, recovery_time)
    /\ CACHE = <<>> /\ db = <<>> /\ hist = NoHistory
    /\ registry = <<>> /\ TOPIC_COUNTER = <<>>
    /\ now = 0
    /\ jwks_cache = NoJwks /\ jwks_last_fetch = 0
    /\ fn = "CircuitBreaker" /\ args = NoAfterCall /\ ret = NoRet

Call_before_call ==
    /\ fn \in {"CircuitBreaker", "before_call", "after_call"}
    /\ fn' = "before_call"
    /\ ret' = [admitted |-> before_call(CIRCUIT, now), at |-> now,
               open |-> CIRCUIT.open]
    /\ UNCHANGED <<now, authVars, args, svcVars>>

Call_after_call ==
    /\ fn = "before_call" /\ ret.admitted
    /\ \E success \in BOOLEAN :
         /\ ~success => CIRCUIT.failure_count < MaxFailures
         /\ CIRCUIT' = after_call(CIRCUIT, success, now)
         /\ hist' = Recorded(hist, [probe |-> ret.open], success)
         /\ args' = [success |-> success, probe |-> ret.open, at |-> now,
                     b |-> CIRCUIT]
    /\ fn' = "after_call"
    /\ ret' = NoRet
    /\ UNCHANGED <<now, authVars, proc, pool, call, CACHE, db, registry,
                   TOPIC_COUNTER>>

NextBR == Call_before_call \/ Call_after_call \/ Tick

SpecBR == InitBR /\ [][NextBR]_vars

(* C28: from closed with consecutive-failure count c, a recorded failure   *)
(* sets the count to c+1 and last_failure_time to the time of the failure, *)
(* and the breaker is open afterwards exactly when c+1 >= threshold; a     *)
(* recorded success leaves it closed with the count 0, so the breaker      *)
(* opens only on the threshold-th failure in a row since the last success. *)
C28_ClosedTransitions ==
    fn = "after_call" /\ ~args.b.open =>
        IF args.success
        THEN ~CIRCUIT.open /\ CIRCUIT.failure_count = 0
        ELSE /\ CIRCUIT.failure_count = args.b.failure_count + 1
             /\ CIRCUIT.last_failure_time = args.at
             /\ CIRCUIT.open <=> args.b.failure_count + 1 >= CIRCUIT.threshold
             /\ CIRCUIT.open => hist.consec >= CIRCUIT.threshold

\* the failure that opens the breaker, recorded after the clock had moved
C28_Witness ==
    /\ fn = "after_call" /\ ~args.b.open /\ ~args.success
    /\ CIRCUIT.open /\ CIRCUIT.failure_count = CIRCUIT.threshold
    /\ args.at > 0 /\ args.at > args.b.last_failure_time

(* With calls handled one at a time: when a probe (a call admitted while   *)
(* the breaker was open, after the recovery window) records success, the   *)
(* breaker is closed with failure count 0 and the calls that follow are    *)
(* admitted; when it records failure, the breaker stays open with          *)
(* last_failure_time the time of that failure, and a call that follows is  *)
(* admitted only once more than recovery_time has passed since then.       *)
ProbeOutcomeInSequence ==
    args.probe =>
        IF args.success
        THEN /\ ~CIRCUIT.open /\ CIRCUIT.failure_count = 0
             /\ fn = "before_call" => ret.admitted
        ELSE /\ CIRCUIT.open /\ CIRCUIT.last_failure_time = args.at
             /\ fn = "before_call" =>
                  (ret.admitted <=> ret.at - args.at > CIRCUIT.recovery_time)

\* a call made one clock step after a failed probe is rejected
RejectedAfterFailedProbe ==
    /\ args.probe /\ ~args.success
    /\ fn = "before_call" /\ ~ret.admitted /\ ret.at > args.at

(* C29: when a probe records failure the breaker stays open, so that calls *)
(* are rejected until a further full recovery_time has elapsed from the    *)
(* failed probe: while no more than recovery_time has passed since a probe *)
(* (a RequestContext call admitted while the breaker was open) recorded    *)
(* its failure, the breaker admits no call.                                *)
C29_RejectedAfterFailedProbe ==
    \A k \in Calls :
        /\ k.pc = "done" /\ k.probe /\ k.aborts = <<"INTERNAL">>
        /\ now - k.t0 <= CIRCUIT.recovery_time
        => ~before_call(CIRCUIT, now)

----------------------------------------------------------------------------
(* C30: when a key-set lookup goes to the endpoint and the endpoint        *)
(* answers with a non-success response (or the fetch fails), the lookup    *)
(* raises and leaves the cached key set and last_fetch exactly as they     *)
(* were: nothing partial or empty is installed, and a lookup made          *)
(* afterwards, at the same time or later, goes to the endpoint again.      *)
C30_FailedFetchKeepsCache ==
    [][fn = "_fetch_jwks" /\ ret = NoRet /\ ret'.fetched /\ ~args.resp.ok
         => /\ ret'.raised
            /\ UNCHANGED authVars
            /\ \A later \in {0, 1, JWKS_TTL_SECONDS} :
                 fetch_jwks(jwks_cache', jwks_last_fetch', now + later,
                            HttpOk(IdpKeys)).fetched]_vars

\* the fetch failed with a key set older than the TTL cached, which is kept
C30_Witness ==
    /\ ret # NoRet /\ ret.raised
    /\ jwks_cache = Jwks(IdpKeys) /\ now - jwks_last_fetch > JWKS_TTL_SECONDS

----------------------------------------------------------------------------
(* SpecPO: RequestContext calls handled one at a time by a Context/Tool    *)
(* server that has answered requests before: the response of the request   *)
(* may be cached already, and the breaker may have been opened at time 0   *)
(* by Threshold failed reads for other requests.                           *)
InitPO ==
    /\ NoDirectCall
    /\ proc = "ContextTool" /\ pool = 1 /\ call = [c \in 1..1 |-> IdleCall]
    /\ db \in {[key \in ContextKeys |-> row] : row \in Rows}
    /\ CACHE \in {<<>>} \cup
                 {cache_set(<<>>, cache_key(key, sorted_items(parameters)),
                            ContextResponse(db, key), 60) :
                    key \in ContextKeys, parameters \in Parameters}
    /\ \/ /\ CIRCUIT = CircuitBreaker(Threshold, RecoveryTime)
          /\ hist = NoHistory
       \/ /\ CIRCUIT = [CircuitBreaker(Threshold, RecoveryTime) EXCEPT
                           !.failure_count = Threshold,
                           !.last_failure_time = 0, !.open = TRUE]
          /\ hist = [NoHistory EXCEPT !.consec = Threshold, !.tripped = TRUE]
    /\ registry = <<>> /\ TOPIC_COUNTER = <<>>
    /\ now = 0
    /\ jwks_cache = Jwks(IdpKeys) /\ jwks_last_fetch = 0

NextPO ==
    \/ \E c \in 1..MaxWorkers :
          \/ RequestContext_Start(c)
          \/ RequestContext_Guard(c)
          \/ RequestContext_Db(c)
          \/ Return(c)
    \/ Tick

SpecPO == InitPO /\ [][NextPO]_vars

\* the RequestContext call of worker c is answered at the guard in this step
ServedAtGuard(c) ==
    /\ call[c].rpc = "RequestContext" /\ call[c].pc = "guard"
    /\ call'[c].pc = "done" /\ call'[c].end = "return"

(* C31: RequestContext consults the response cache only after the breaker  *)
(* guard admitted the call: no cached entry is served, and no cache lookup *)
(* made, while the breaker is open and the recovery window has not         *)
(* elapsed; a call served from the cache reads nothing from the backing    *)
(* store and leaves the breaker (open flag, failure count,                 *)
(* last_failure_time), the cache and the store as they were.               *)
C31_CacheAfterGuard ==
    [][\A c \in DOMAIN call :
         /\ call[c].rpc = "RequestContext" /\ call[c].pc = "guard"
            /\ "cache_read" \in call'[c].fx
            => \/ ~CIRCUIT.open
               \/ now - CIRCUIT.last_failure_time > CIRCUIT.recovery_time
         /\ ServedAtGuard(c)
            => /\ call'[c].out =
                    <<CACHE[cache_key(call[c].key, call[c].items)]>>
               /\ "db_read" \notin call'[c].fx
               /\ "breaker_update" \notin call'[c].fx
               /\ UNCHANGED <<CIRCUIT, CACHE, db>>]_vars

\* a probe served from the cache: the breaker is as open as it was
C31_Witness ==
    \E k \in Calls : FromCache(k) /\ k.probe /\ CIRCUIT.open

----------------------------------------------------------------------------
(* SpecEG: the two-step capability check of Publish and Subscribe on every *)
(* topic of at most MaxLen characters and every granted list of at most    *)
(* MaxCaps capabilities made of the operation's prefix and at most MaxLen  *)
(* characters.                                                             *)
TopicChars == {"a", ":", "*"}
TopicStrs(n) == UNION {[1..m -> TopicChars] : m \in 0..n}

InitEG ==
    /\ proc = "EventBus" /\ pool = 0 /\ call = <<>>
    /\ CIRCUIT = CircuitBreaker(Threshold, RecoveryTime)
    /\ CACHE = <<>> /\ db = <<>> /\ hist = NoHistory
    /\ registry = <<>> /\ TOPIC_COUNTER = <<>>
    /\ now = 0 /\ jwks_cache = NoJwks /\ jwks_last_fetch = 0
    /\ fn = "event_granted"
    /\ \E prefix \in {PFX_event_publish, PFX_event_subscribe},
          topic \in TopicStrs(MaxLen) :
         \E caps \in Lists(MaxCaps, {prefix \o s : s \in TopicStrs(MaxLen)}) :
            args = [payload |-> [capabilities |-> caps], prefix |-> prefix,
                    topic |-> topic]
    /\ ret = NoRet

Call_event_granted ==
    /\ fn = "event_granted" /\ ret = NoRet
    /\ ret' = [value |-> event_granted(args.payload, args.prefix, args.topic)]
    /\ UNCHANGED <<now, authVars, fn, args, svcVars>>

SpecEG == InitEG /\ [][Call_event_granted]_vars

(* C32: for Publish and Subscribe, the exact check of event:<op>:<topic>   *)
(* followed on denial by the check of event:<op>:<first-segment>* admits   *)
(* a call if and only if the capability matcher alone grants               *)
(* event:<op>:<topic>: the retry never admits what the first check denied, *)
(* for every topic and every granted capability list.                      *)
C32_RetryAdmitsNothingNew ==
    fn = "event_granted" /\ ret # NoRet
    => (ret.value <=> Matches(args.payload.capabilities,
                              args.prefix \o args.topic))

----------------------------------------------------------------------------
(* SpecSub: Subscribe with a verified token, on every topic_filter of at   *)
(* most MaxLen characters and every granted list of at most MaxCaps        *)
(* capabilities made of event:subscribe: and at most MaxLen characters;    *)
(* once subscribed, the handler forwards the events published to any topic *)
(* of at most MaxLen characters whose channel the subscription covers.     *)

\* f"mcp2:event:{...}", the channel of a topic
channel(topic) == <<"m","c","p","2",":","e","v","e","n","t",":">> \o topic

(* The broker's match of a channel against a psubscribe pattern: Redis     *)
(* glob, where * stands for any run of characters and ? for any one        *)
(* character ([...] and \ are not among the characters drawn).             *)
RECURSIVE glob_match(_, _, _, _)
glob_match(pattern, i, str, j) ==
    IF i > Len(pattern) THEN j > Len(str)
    ELSE IF pattern[i] = "*"
         THEN \E k \in j..(Len(str) + 1) : glob_match(pattern, i + 1, str, k)
    ELSE IF j > Len(str) THEN FALSE
    ELSE IF pattern[i] = "?" \/ pattern[i] = str[j]
         THEN glob_match(pattern, i + 1, str, j + 1)
    ELSE FALSE

\* lines 104-112: psubscribe(f"mcp2:event:{prefix}*") or subscribe(channel)
delivered_to(topic_filter, topic) ==
    IF endswith_star(topic_filter)
    THEN glob_match(channel(drop_last(topic_filter) \o <<"*">>), 1,
                    channel(topic), 1)
    ELSE channel(topic) = channel(topic_filter)

InitSub ==
    /\ proc = "EventBus" /\ pool = 0 /\ call = <<>>
    /\ CIRCUIT = CircuitBreaker(Threshold, RecoveryTime)
    /\ CACHE = <<>> /\ db = <<>> /\ hist = NoHistory
    /\ registry = <<>> /\ TOPIC_COUNTER = <<>>
    /\ now = 0 /\ jwks_cache = Jwks(IdpKeys) /\ jwks_last_fetch = 0
    /\ fn = "Subscribe"
    /\ \E topic_filter \in Strs(MaxLen),
          caps \in Lists(MaxCaps, {PFX_event_subscribe \o s : s \in Strs(MaxLen)}) :
         args = [payload |-> Claims(AudStr(SN_EventBus), "alice", caps),
                 topic_filter |-> topic_filter]
    /\ ret = NoRet

\* lines 85-120: the checks of the try block, then the subscription
Call_Subscribe ==
    /\ fn = "Subscribe" /\ ret = NoRet
    /\ ret' = [subscribed |->
                 Subscribe_try([ok |-> TRUE, payload |-> args.payload],
                               args.topic_filter) = "pass",
               envelopes |-> <<>>]
    /\ UNCHANGED <<now, authVars, fn, args, svcVars>>

(* lines 123-135: an event published to `topic` reaches the subscription   *)
(* and is written to the stream as an EventEnvelope                        *)
Subscribe_Forward ==
    /\ fn = "Subscribe" /\ ret # NoRet /\ ret.subscribed
    /\ ret.envelopes = <<>>
    /\ \E topic \in Strs(MaxLen) :
         /\ delivered_to(args.topic_filter, topic)
         /\ ret' = [ret EXCEPT !.envelopes = <<[topic |-> topic]>>]
    /\ UNCHANGED <<now, authVars, fn, args, svcVars>>

NextSub == Call_Subscribe \/ Subscribe_Forward

SpecSub == InitSub /\ [][NextSub]_vars

(* C33: a subscriber receives no event outside its authority: for every    *)
(* topic_filter (exact, or a pattern whose last character is the star) and *)
(* every capability list with which Subscribe is admitted, every envelope  *)
(* forwarded on the stream has a topic T for which the capability matcher  *)
(* grants event:subscribe:T to the subscriber's token.                     *)
C33_OnlyGrantedTopics ==
    fn = "Subscribe" /\ ret # NoRet =>
        \A i \in 1..Len(ret.envelopes) :
            Matches(args.payload.capabilities,
                    PFX_event_subscribe \o ret.envelopes[i].topic)

====
